---- MODULE Spec2Model ----
(***************************************************************************)
(* A model of the tx3 language server (tx3-lang/lsp): the span/position    *)
(* index of src/lib.rs, the tree visitor of src/visitor.rs and the request *)
(* handlers of src/server.rs.                                              *)
(*                                                                         *)
(* A text is a sequence of characters, each a one-character string.  The   *)
(* character "é" stands for any character whose UTF-8 encoding is longer   *)
(* than one byte.  Offsets, lines and columns are zero-based as in the     *)
(* code; sequences are one-based, so the character at offset o of a text   *)
(* t is t[o + 1].                                                          *)
(***************************************************************************)
EXTENDS Naturals, Sequences, FiniteSets, TLC

VARIABLES
    text,       \* SpecIndex: the text the two conversions are applied to
    pc,         \* SpecIndex: "start", "converted", "done"
    idx,        \* SpecIndex: the character offset given to char_index_to_line_col
    pos,        \* SpecIndex: the (line, column) it returned
    off,        \* SpecIndex: the offset position_to_offset returned for pos
    documents,  \* Context::documents: the text stored for each URI
    reply,      \* the request answered last, with its reply
    inflight,   \* the publish_diagnostics calls awaited by a handler
    published,  \* for each URI, the diagnostics the client received last
    running,    \* the request handlers that have started and not returned
    notified,   \* for each URI, the content changes the client sent last
    tree        \* SpecVisit: the Program find_symbol_in_program is applied to

indexVars == <<text, pc, idx, pos, off, tree>>

serverVars ==
    <<documents, reply, inflight, published, running, notified>>

vars ==
    <<text, pc, idx, pos, off, tree, documents, reply, inflight, published,
      running, notified>>

-----------------------------------------------------------------------------
(* Bounds *)

\* SpecVisit: the most identifiers of a Program whose span is 0..1.
MaxNear == 3

\* SpecVisit: the last offset find_symbol_in_program is asked about.
MaxOffset == 3

\* The column of the requests of SpecSnapshot that are not for the start
\* of the text.
MaxSnapshotColumn == 6

\* The longest text of SpecIndex, in characters.
MaxTextLen == 4

\* The positions of the requests: lines 0..MaxLine, columns 0..MaxColumn.
MaxLine == 3
MaxColumn == 91

\* The most errors one analysis reports.
MaxErrors == 2

\* The most notification handlers that await their publish_diagnostics.
MaxInFlight == 1

-----------------------------------------------------------------------------
(* Characters and strings *)

LF == "\n"
CR == "\r"

\* The characters SpecIndex builds its texts from.
Alphabet == {"a", "é", CR, LF}

\* char::len_utf8: the number of bytes of a character in a Rust str.
Utf8Len(c) == IF c = "é" THEN 2 ELSE 1

\* str::len: the length of a string in bytes.
RECURSIVE StrLen(_)
StrLen(s) == IF s = <<>> THEN 0 ELSE Utf8Len(Head(s)) + StrLen(Tail(s))

Min(a, b) == IF a <= b THEN a ELSE b

\* Every carriage return of the text is followed by a line feed.  A lone
\* carriage return is a line break to ropey only under some of its build
\* features, so the texts of the model have none.
CrIsCrLf(t) ==
    \A i \in 1..Len(t) : t[i] = CR => (i < Len(t) /\ t[i + 1] = LF)

SeqsUpTo(S, n) == UNION {[1..k -> S] : k \in 0..n}

Texts == {t \in SeqsUpTo(Alphabet, MaxTextLen) : CrIsCrLf(t)}

-----------------------------------------------------------------------------
(* The rope (ropey::Rope), addressed in characters *)

\* Rope::char_to_line: the number of line breaks that end at or before the
\* character offset i.  A CR LF pair is one line break, which ends after
\* its line feed.
char_to_line(rope, i) == Cardinality({k \in 1..i : rope[k] = LF})

\* Rope::line_to_char: the character offset at which the line starts.
line_to_char(rope, line) ==
    IF line = 0 THEN 0
    ELSE CHOOSE k \in 1..Len(rope) :
            rope[k] = LF /\ char_to_line(rope, k) = line

char_index_to_line_col(rope, i) ==
    LET line == char_to_line(rope, i)
        line_start == line_to_char(rope, line)
    IN  [line |-> line, character |-> i - line_start]

-----------------------------------------------------------------------------
(* str::lines and position_to_offset *)

\* The offset (one-based index) of the first line feed of s, 0 if none.
FirstLf(s) ==
    IF \E k \in 1..Len(s) : s[k] = LF
    THEN CHOOSE k \in 1..Len(s) : s[k] = LF /\ \A j \in 1..(k - 1) : s[j] # LF
    ELSE 0

\* A line without the carriage return that preceded its line feed.
StripCr(l) ==
    IF l # <<>> /\ l[Len(l)] = CR THEN SubSeq(l, 1, Len(l) - 1) ELSE l

\* str::lines: the lines of s, split at line feeds, without their line
\* endings ("\n" or "\r\n"); a final line feed starts no further line.
RECURSIVE Lines(_)
Lines(s) ==
    IF s = <<>> THEN <<>>
    ELSE LET k == FirstLf(s)
         IN  IF k = 0 THEN <<s>>
             ELSE <<StripCr(SubSeq(s, 1, k - 1))>>
                     \o Lines(SubSeq(s, k + 1, Len(s)))

\* The loop of position_to_offset over lines n.. of ls, with the offset
\* accumulated so far.
RECURSIVE OffsetLoop(_, _, _, _)
OffsetLoop(ls, n, p, offset) ==
    IF n > Len(ls) THEN offset
    ELSE IF n - 1 = p.line
         THEN offset + Min(p.character, StrLen(ls[n]))
         ELSE OffsetLoop(ls, n + 1, p, offset + StrLen(ls[n]) + 1)

position_to_offset(t, p) == OffsetLoop(Lines(t), 1, p, 0)

-----------------------------------------------------------------------------
(* Spans, identifiers and options (tx3_lang::ast) *)

None == [some |-> FALSE]
Some(x) == [some |-> TRUE, v |-> x]

Span(a, b) == [start |-> a, end |-> b]

\* An Identifier node whose text v starts at offset a.
Ident(v, a) == [value |-> v, span |-> Span(a, a + Len(v))]

in_span(span, offset) == span.start <= offset /\ offset < span.end

span_contains(span, offset) == offset >= span.start /\ offset < span.end

span_to_lsp_range(rope, loc) ==
    [start |-> char_index_to_line_col(rope, loc.start),
     end |-> char_index_to_line_col(rope, loc.end)]

\* The first Some of a sequence of optional results, None if there is
\* none: a loop that returns at the first match.
FirstSome(rs) ==
    IF \E i \in DOMAIN rs : rs[i].some
    THEN rs[CHOOSE i \in DOMAIN rs :
                rs[i].some /\ \A j \in 1..(i - 1) : ~rs[j].some]
    ELSE None

\* a.or_else(|| b) of two optional results.
OrElse(a, b) == IF a.some THEN a ELSE b

-----------------------------------------------------------------------------
(* The tree visitor (src/visitor.rs) *)

SymIdentifier(id) == Some([kind |-> "Identifier", id |-> id])
SymTypeIdentifier(ty) == Some([kind |-> "TypeIdentifier", ty |-> ty])

visit_identifier(id, offset) ==
    IF in_span(id.span, offset) THEN SymIdentifier(id) ELSE None

RECURSIVE visit_type(_, _)
visit_type(ty, offset) ==
    CASE ty.type.kind = "Custom" -> visit_identifier(ty.type.id, offset)
      [] ty.type.kind = "List" -> visit_type(ty.type.inner, offset)
      [] OTHER -> None

visit_property_access(pa, offset) ==
    OrElse(visit_identifier(pa.object, offset),
           FirstSome([i \in DOMAIN pa.path |->
                        visit_identifier(pa.path[i], offset)]))

RECURSIVE visit_data_expr(_, _)
RECURSIVE visit_struct_constructor(_, _)
RECURSIVE visit_variant_case_constructor(_, _)
RECURSIVE visit_record_constructor_field(_, _)

visit_data_expr(expr, offset) ==
    CASE expr.kind = "Identifier" -> visit_identifier(expr.id, offset)
      [] expr.kind = "StructConstructor" ->
            visit_struct_constructor(expr.sc, offset)
      [] expr.kind = "ListConstructor" ->
            FirstSome([i \in DOMAIN expr.elements |->
                         visit_data_expr(expr.elements[i], offset)])
      [] expr.kind = "PropertyAccess" ->
            visit_property_access(expr.pa, offset)
      [] expr.kind = "BinaryOp" ->
            OrElse(visit_data_expr(expr.left, offset),
                   visit_data_expr(expr.right, offset))
      [] OTHER -> None

visit_struct_constructor(sc, offset) ==
    OrElse(visit_identifier(sc.type, offset),
           visit_variant_case_constructor(sc.case, offset))

visit_variant_case_constructor(vc, offset) ==
    OrElse(visit_identifier(vc.name, offset),
    OrElse(FirstSome([i \in DOMAIN vc.fields |->
                        visit_record_constructor_field(vc.fields[i], offset)]),
           IF vc.spread.some THEN visit_data_expr(vc.spread.v, offset)
           ELSE None))

visit_record_constructor_field(field, offset) ==
    OrElse(visit_identifier(field.name, offset),
           visit_data_expr(field.value, offset))

RECURSIVE visit_asset_expr(_, _)
visit_asset_expr(expr, offset) ==
    CASE expr.kind = "Identifier" -> visit_identifier(expr.id, offset)
      [] expr.kind = "StaticConstructor" ->
            OrElse(visit_identifier(expr.type, offset),
                   visit_data_expr(expr.amount, offset))
      [] expr.kind = "AnyConstructor" ->
            OrElse(visit_data_expr(expr.policy, offset),
            OrElse(visit_data_expr(expr.asset_name, offset),
                   visit_data_expr(expr.amount, offset)))
      [] expr.kind = "BinaryOp" ->
            OrElse(visit_asset_expr(expr.left, offset),
                   visit_asset_expr(expr.right, offset))
      [] expr.kind = "PropertyAccess" ->
            visit_property_access(expr.pa, offset)

visit_address_expr(expr, offset) ==
    CASE expr.kind = "Identifier" -> visit_identifier(expr.id, offset)
      [] OTHER -> None

visit_parameter_list(params, offset) ==
    FirstSome([i \in DOMAIN params.parameters |->
        IF in_span(params.parameters[i].name.span, offset)
        THEN SymIdentifier(params.parameters[i].name)
        ELSE visit_type(params.parameters[i].type, offset)])

visit_input_block_field(field, offset) ==
    CASE field.kind = "From" -> visit_address_expr(field.e, offset)
      [] field.kind = "DatumIs" -> visit_type(field.e, offset)
      [] field.kind = "MinAmount" -> visit_asset_expr(field.e, offset)
      [] field.kind = "Redeemer" -> visit_data_expr(field.e, offset)
      [] field.kind = "Ref" -> visit_data_expr(field.e, offset)

visit_input_block(input, offset) ==
    FirstSome([i \in DOMAIN input.fields |->
                 visit_input_block_field(input.fields[i], offset)])

visit_output_block_field(field, offset) ==
    CASE field.kind = "To" -> visit_address_expr(field.e, offset)
      [] field.kind = "Amount" -> visit_asset_expr(field.e, offset)
      [] field.kind = "Datum" -> visit_data_expr(field.e, offset)

visit_output_block(output, offset) ==
    FirstSome([i \in DOMAIN output.fields |->
                 visit_output_block_field(output.fields[i], offset)])

\* The fields of a mint block and of a burn block are MintBlockFields.
visit_mint_block(mb, offset) ==
    FirstSome([i \in DOMAIN mb.fields |->
        CASE mb.fields[i].kind = "Amount" ->
                visit_asset_expr(mb.fields[i].e, offset)
          [] mb.fields[i].kind = "Redeemer" ->
                visit_data_expr(mb.fields[i].e, offset)])

visit_burn_block(bb, offset) ==
    FirstSome([i \in DOMAIN bb.fields |->
        CASE bb.fields[i].kind = "Amount" ->
                visit_asset_expr(bb.fields[i].e, offset)
          [] bb.fields[i].kind = "Redeemer" ->
                visit_data_expr(bb.fields[i].e, offset)])

visit_reference_block(rb, offset) == visit_data_expr(rb.ref, offset)

visit_chain_specific_block(cb, offset) == None

visit_collateral_block(cb, offset) ==
    FirstSome([i \in DOMAIN cb.fields |->
        CASE cb.fields[i].kind = "From" ->
                visit_address_expr(cb.fields[i].e, offset)
          [] cb.fields[i].kind = "MinAmount" ->
                visit_asset_expr(cb.fields[i].e, offset)
          [] cb.fields[i].kind = "Ref" ->
                visit_data_expr(cb.fields[i].e, offset)])

visit_signers_block(sb, offset) ==
    FirstSome([i \in DOMAIN sb.signers |->
                 visit_data_expr(sb.signers[i], offset)])

\* Both fields of a validity block, SinceSlot and UntilSlot, hold a
\* data expression.
visit_validity_block(vb, offset) ==
    FirstSome([i \in DOMAIN vb.fields |->
                 visit_data_expr(vb.fields[i].e, offset)])

visit_metadata_block(mb, offset) == None

\* visit_tx_def with the outputs visited before the inputs.
visit_tx_def_outputs_first(tx, offset) ==
    OrElse(IF in_span(tx.name.span, offset)
           THEN SymIdentifier(tx.name) ELSE None,
    OrElse(visit_parameter_list(tx.parameters, offset),
    OrElse(FirstSome([i \in DOMAIN tx.outputs |->
                        visit_output_block(tx.outputs[i], offset)]),
    OrElse(FirstSome([i \in DOMAIN tx.inputs |->
                        visit_input_block(tx.inputs[i], offset)]),
    OrElse(FirstSome([i \in DOMAIN tx.mints |->
                        visit_mint_block(tx.mints[i], offset)]),
    OrElse(FirstSome([i \in DOMAIN tx.references |->
                        visit_reference_block(tx.references[i], offset)]),
    OrElse(FirstSome([i \in DOMAIN tx.collateral |->
                        visit_collateral_block(tx.collateral[i], offset)]),
    OrElse(IF tx.signers.some
           THEN visit_signers_block(tx.signers.v, offset) ELSE None,
    OrElse(IF tx.validity.some
           THEN visit_validity_block(tx.validity.v, offset) ELSE None,
           IF tx.burn.some
           THEN visit_burn_block(tx.burn.v, offset) ELSE None
    )))))))))

visit_tx_def(tx, offset) ==
    OrElse(IF in_span(tx.name.span, offset)
           THEN SymIdentifier(tx.name) ELSE None,
    OrElse(visit_parameter_list(tx.parameters, offset),
    OrElse(FirstSome([i \in DOMAIN tx.inputs |->
                        visit_input_block(tx.inputs[i], offset)]),
    OrElse(FirstSome([i \in DOMAIN tx.outputs |->
                        visit_output_block(tx.outputs[i], offset)]),
    OrElse(FirstSome([i \in DOMAIN tx.mints |->
                        visit_mint_block(tx.mints[i], offset)]),
    OrElse(FirstSome([i \in DOMAIN tx.references |->
                        visit_reference_block(tx.references[i], offset)]),
    OrElse(FirstSome([i \in DOMAIN tx.adhoc |->
                        visit_chain_specific_block(tx.adhoc[i], offset)]),
    OrElse(FirstSome([i \in DOMAIN tx.collateral |->
                        visit_collateral_block(tx.collateral[i], offset)]),
    OrElse(IF tx.signers.some
           THEN visit_signers_block(tx.signers.v, offset) ELSE None,
    OrElse(IF tx.validity.some
           THEN visit_validity_block(tx.validity.v, offset) ELSE None,
    OrElse(IF tx.burn.some
           THEN visit_burn_block(tx.burn.v, offset) ELSE None,
           IF tx.metadata.some
           THEN visit_metadata_block(tx.metadata.v, offset) ELSE None
    )))))))))))

visit_asset_def(asset, offset) ==
    OrElse(visit_data_expr(asset.policy, offset),
           visit_data_expr(asset.asset_name, offset))

visit_record_field(field, offset) ==
    IF in_span(field.name.span, offset)
    THEN SymIdentifier(field.name)
    ELSE visit_type(field.type, offset)

visit_variant_case(case, offset) ==
    FirstSome([i \in DOMAIN case.fields |->
                 visit_record_field(case.fields[i], offset)])

visit_type_def(ty, offset) ==
    IF in_span(ty.name.span, offset) THEN SymIdentifier(ty.name)
    ELSE FirstSome([i \in DOMAIN ty.cases |->
            OrElse(FirstSome([j \in DOMAIN ty.cases[i].fields |->
                      IF in_span(ty.cases[i].fields[j].type.span, offset)
                      THEN SymTypeIdentifier(ty.cases[i].fields[j].type)
                      ELSE None]),
                   visit_variant_case(ty.cases[i], offset))])

visit_party_def(party, offset) ==
    IF in_span(party.span, offset) THEN SymIdentifier(party.name) ELSE None

visit_policy_field(field, offset) == visit_data_expr(field.e, offset)

visit_policy_def(policy, offset) ==
    CASE policy.value.kind = "Constructor" ->
            FirstSome([i \in DOMAIN policy.value.fields |->
                         visit_policy_field(policy.value.fields[i], offset)])
      [] policy.value.kind = "Assign" ->
            IF in_span(policy.span, offset)
            THEN SymIdentifier(policy.name) ELSE None

\* find_symbol_in_program with the parties visited before the types.
find_symbol_in_program_parties_first(program, offset) ==
    OrElse(FirstSome([i \in DOMAIN program.txs |->
                        visit_tx_def(program.txs[i], offset)]),
    OrElse(FirstSome([i \in DOMAIN program.assets |->
                        visit_asset_def(program.assets[i], offset)]),
    OrElse(FirstSome([i \in DOMAIN program.parties |->
                        visit_party_def(program.parties[i], offset)]),
    OrElse(FirstSome([i \in DOMAIN program.types |->
                        visit_type_def(program.types[i], offset)]),
           FirstSome([i \in DOMAIN program.policies |->
                        visit_policy_def(program.policies[i], offset)])))))

find_symbol_in_program(program, offset) ==
    OrElse(FirstSome([i \in DOMAIN program.txs |->
                        visit_tx_def(program.txs[i], offset)]),
    OrElse(FirstSome([i \in DOMAIN program.assets |->
                        visit_asset_def(program.assets[i], offset)]),
    OrElse(FirstSome([i \in DOMAIN program.types |->
                        visit_type_def(program.types[i], offset)]),
    OrElse(FirstSome([i \in DOMAIN program.parties |->
                        visit_party_def(program.parties[i], offset)]),
           FirstSome([i \in DOMAIN program.policies |->
                        visit_policy_def(program.policies[i], offset)])))))

-----------------------------------------------------------------------------
(* Source programs and their parse (tx3_lang::parsing::parse_string)       *)
(*                                                                         *)
(* The parser is a collaborator outside the repository.  The model holds a *)
(* bounded family of source programs; each is laid out as a text, and the  *)
(* tree the parser returns for that text carries the spans of the layout.  *)
(***************************************************************************)

KwParty == <<"p", "a", "r", "t", "y">>
KwPolicy == <<"p", "o", "l", "i", "c", "y">>
KwType == <<"t", "y", "p", "e">>
KwAsset == <<"a", "s", "s", "e", "t">>
KwTx == <<"t", "x">>
KwInput == <<"i", "n", "p", "u", "t">>
KwOutput == <<"o", "u", "t", "p", "u", "t">>
KwReference == <<"r", "e", "f", "e", "r", "e", "n", "c", "e">>

OfKind(nodes, k) == SelectSeq(nodes, LAMBDA n : n.k = k)

\* The layout h, the separator s and the layout r, one after the other.
Joined(h, s, r) ==
    [txt |-> h.txt \o s \o r.txt, nodes |-> <<h.node>> \o r.nodes]

RECURSIVE Build(_, _)
RECURSIVE PlaceAll(_, _, _)
RECURSIVE PlaceAfter(_, _, _, _, _)

\* The elements ds laid out one after the other from offset b, sep between
\* two of them: the text and the tree nodes.
PlaceAll(ds, b, sep) ==
    IF ds = <<>> THEN [txt |-> <<>>, nodes |-> <<>>]
    ELSE PlaceAfter(Build(Head(ds), b),
                    IF Len(ds) > 1 THEN sep ELSE <<>>, Tail(ds), b, sep)

\* The element h placed at offset b, followed by s and the elements ds.
PlaceAfter(h, s, ds, b, sep) ==
    Joined(h, s, PlaceAll(ds, b + Len(h.txt) + Len(s), sep))

\* The element d laid out at offset b: its text and its tree node.
\*   party N;                      policy N=0x1;      policy N{hash:H}
\*   type N{f:T}                   asset N=P.1;       asset N=0x1.1;
\*   tx N(p:T,q:Int){input s{from:A} output o{to:B} reference r{ref:X}}
Build(d, b) ==
    CASE d.k = "party" ->
        LET t == KwParty \o <<" ">> \o d.n \o <<";">>
        IN  [txt |-> t,
             node |-> [k |-> "party", name |-> Ident(d.n, b + 6),
                       span |-> Span(b, b + Len(t))]]
      [] d.k = "policy" ->
        LET t == KwPolicy \o <<" ">> \o d.n \o
                 (IF d.h = <<>> THEN <<"=", "0", "x", "1", ";">>
                  ELSE <<"{", "h", "a", "s", "h", ":">> \o d.h \o <<"}">>)
        IN  [txt |-> t,
             node |-> [k |-> "policy", name |-> Ident(d.n, b + 7),
                       span |-> Span(b, b + Len(t)),
                       value |->
                         IF d.h = <<>> THEN [kind |-> "Assign"]
                         ELSE [kind |-> "Constructor",
                               fields |-> <<[kind |-> "Hash",
                                   e |-> [kind |-> "Identifier",
                                          id |-> Ident(d.h, b + 13 + Len(d.n))]
                               ]>>]]]
      [] d.k = "type" ->
        LET t == KwType \o <<" ">> \o d.n \o <<"{">> \o d.f \o <<":">>
                    \o d.t \o <<"}">>
            tyAt == b + 7 + Len(d.n) + Len(d.f)
        IN  [txt |-> t,
             node |-> [k |-> "type", name |-> Ident(d.n, b + 5),
                       span |-> Span(b, b + Len(t)),
                       cases |-> <<[name |-> Ident(<<>>, b + 5 + Len(d.n)),
                         fields |-> <<[
                           name |-> Ident(d.f, b + 6 + Len(d.n)),
                           type |-> [type |-> [kind |-> "Custom",
                                               id |-> Ident(d.t, tyAt)],
                                     span |-> Span(tyAt, tyAt + Len(d.t))]
                         ]>>]>>]]
      [] d.k = "asset" ->
        LET t == KwAsset \o <<" ">> \o d.n \o <<"=">> \o
                 (IF d.p = <<>> THEN <<"0", "x", "1">> ELSE d.p)
                 \o <<".", "1", ";">>
        IN  [txt |-> t,
             node |-> [k |-> "asset", name |-> Ident(d.n, b + 6),
                       span |-> Span(b, b + Len(t)),
                       policy |->
                         IF d.p = <<>> THEN [kind |-> "HexString"]
                         ELSE [kind |-> "Identifier",
                               id |-> Ident(d.p, b + 7 + Len(d.n))],
                       asset_name |-> [kind |-> "Number"]]]
      [] d.k = "param" ->
        LET t == d.n \o <<":">> \o
                 (IF d.t = <<>> THEN <<"I", "n", "t">> ELSE d.t)
            tyAt == b + Len(d.n) + 1
        IN  [txt |-> t,
             node |-> [k |-> "param", name |-> Ident(d.n, b),
                       type |-> [type |->
                                   IF d.t = <<>> THEN [kind |-> "Int"]
                                   ELSE [kind |-> "Custom",
                                         id |-> Ident(d.t, tyAt)],
                                 span |-> Span(tyAt, b + Len(t))]]]
      [] d.k = "input" ->
        LET t == KwInput \o <<" ">> \o d.n \o
                    <<"{", "f", "r", "o", "m", ":">> \o d.a \o <<"}">>
        IN  [txt |-> t,
             node |-> [k |-> "input", name |-> d.n,
                       span |-> Span(b, b + Len(t)),
                       fields |-> <<[kind |-> "From",
                           e |-> [kind |-> "Identifier",
                                  id |-> Ident(d.a, b + 12 + Len(d.n))]]>>]]
      [] d.k = "output" ->
        LET nm == IF d.n = <<>> THEN <<>> ELSE <<" ">> \o d.n
            t == KwOutput \o nm \o <<"{", "t", "o", ":">> \o d.a \o <<"}">>
        IN  [txt |-> t,
             node |-> [k |-> "output",
                       name |-> IF d.n = <<>> THEN None ELSE Some(d.n),
                       span |-> Span(b, b + Len(t)),
                       fields |-> <<[kind |-> "To",
                           e |-> [kind |-> "Identifier",
                                  id |-> Ident(d.a, b + 10 + Len(nm))]]>>]]
      [] d.k = "reference" ->
        LET t == KwReference \o <<" ">> \o d.n \o
                    <<"{", "r", "e", "f", ":">> \o d.a \o <<"}">>
        IN  [txt |-> t,
             node |-> [k |-> "reference", name |-> d.n,
                       span |-> Span(b, b + Len(t)),
                       ref |-> [kind |-> "Identifier",
                                id |-> Ident(d.a, b + 15 + Len(d.n))]]]
      [] d.k = "tx" ->
        LET head == KwTx \o <<" ">> \o d.n
            ps == PlaceAll(d.ps, b + Len(head) + 1, <<",">>)
            sig == head \o <<"(">> \o ps.txt \o <<")", "{">>
            body == PlaceAll(d.blocks, b + Len(sig), <<" ">>)
            t == sig \o body.txt \o <<"}">>
        IN  [txt |-> t,
             node |-> [k |-> "tx", name |-> Ident(d.n, b + 3),
                       span |-> Span(b, b + Len(t)),
                       parameters |->
                         [parameters |-> ps.nodes,
                          span |-> Span(b + Len(head), b + Len(sig) - 1)],
                       inputs |-> OfKind(body.nodes, "input"),
                       outputs |-> OfKind(body.nodes, "output"),
                       references |-> OfKind(body.nodes, "reference"),
                       mints |-> <<>>, adhoc |-> <<>>, collateral |-> <<>>,
                       signers |-> None, validity |-> None,
                       burn |-> None, metadata |-> None]]

\* The text of a source program and the Program the parser returns for it.
Program(l) ==
    [text |-> l.txt,
     ast |-> [parties |-> OfKind(l.nodes, "party"),
              policies |-> OfKind(l.nodes, "policy"),
              types |-> OfKind(l.nodes, "type"),
              assets |-> OfKind(l.nodes, "asset"),
              txs |-> OfKind(l.nodes, "tx")]]

Layout(ds, sep) == Program(PlaceAll(ds, 0, sep))

\* The source programs of the model.
Party(n) == [k |-> "party", n |-> n]
Policy(n, h) == [k |-> "policy", n |-> n, h |-> h]
TypeDef(n, f, t) == [k |-> "type", n |-> n, f |-> f, t |-> t]
Asset(n, p) == [k |-> "asset", n |-> n, p |-> p]
Param(n, t) == [k |-> "param", n |-> n, t |-> t]
Input(n, a) == [k |-> "input", n |-> n, a |-> a]
Output(n, a) == [k |-> "output", n |-> n, a |-> a]
Reference(n, a) == [k |-> "reference", n |-> n, a |-> a]
Tx(n, ps, blocks) == [k |-> "tx", n |-> n, ps |-> ps, blocks |-> blocks]

Sources ==
    { <<>>,
      \* party Bo; tx T(){input s{from:Bo}}
      << Party(<<"B", "o">>),
         Tx(<<"T">>, <<>>, <<Input(<<"s">>, <<"B", "o">>)>>) >>,
      \* party A; policy P=0x1;
      \* tx T(A:Int,q:P){input s{from:A} output o{to:q} reference r{ref:s}}
      << Party(<<"A">>), Policy(<<"P">>, <<>>),
         Tx(<<"T">>, <<Param(<<"A">>, <<>>), Param(<<"q">>, <<"P">>)>>,
            <<Input(<<"s">>, <<"A">>), Output(<<"o">>, <<"q">>),
              Reference(<<"r">>, <<"s">>)>>) >>,
      \* policy Q{hash:H}; type D{f:D}; asset K=Q.1; asset L=0x1.1;
      << Policy(<<"Q">>, <<"H">>), TypeDef(<<"D">>, <<"f">>, <<"D">>),
         Asset(<<"K">>, <<"Q">>), Asset(<<"L">>, <<>>) >>,
      \* tx T(p:Int){output{to:p} reference r{ref:o}}
      \* tx U(){output o{to:p} input s{from:r}}
      << Tx(<<"T">>, <<Param(<<"p">>, <<>>)>>,
            <<Output(<<>>, <<"p">>), Reference(<<"r">>, <<"o">>)>>),
         Tx(<<"U">>, <<>>,
            <<Output(<<"o">>, <<"p">>), Input(<<"s">>, <<"r">>)>>) >>,
      \* policy A=0x1; party A; party Bo; tx T(){input s{from:A}}
      << Policy(<<"A">>, <<>>), Party(<<"A">>), Party(<<"B", "o">>),
         Tx(<<"T">>, <<>>, <<Input(<<"s">>, <<"A">>)>>) >> }

\* What stands between two declarations of a source program: a line
\* ending, or a space that keeps them on one line.
Separators == {<<LF>>, <<CR, LF>>, <<" ">>}

\* The texts that parse, each with its Program.
GoodDocs == {Layout(ds, sep) : ds \in Sources, sep \in Separators}

GoodTexts == {d.text : d \in GoodDocs}

\* The texts that do not parse: a text that parses, cut before its last
\* character (the "}" of a block, the ";" of a declaration).
BrokenTexts ==
    {SubSeq(t, 1, Len(t) - 1) : t \in GoodTexts \ {<<>>}} \ GoodTexts

KnownTexts == GoodTexts \cup BrokenTexts

Ok(x) == [ok |-> TRUE, v |-> x]
Err(e) == [ok |-> FALSE, e |-> e]

\* tx3_lang::parsing::parse_string: the Program of a text that parses, or
\* the parser's error, which reports the end of the text it ran into.
ParseResult(t, parses) ==
    IF parses # {}
    THEN Ok((CHOOSE d \in parses : TRUE).ast)
    ELSE Err([span |-> Span(Len(t), Len(t)),
              message |-> "expected end of block",
              src |-> t])

parse_string(t) == ParseResult(t, {d \in GoodDocs : d.text = t})

-----------------------------------------------------------------------------
(* Semantic tokens (Context::collect_semantic_tokens, src/lib.rs) *)

TOKEN_TYPE == 1
TOKEN_CLASS == 5
TOKEN_PARTY == 7
TOKEN_POLICY == 8
TOKEN_TRANSACTION == 9
MOD_DECLARATION == 1

\* The SemanticTokensLegend that initialize advertises (src/server.rs): a
\* token_type is an index into token_types that starts at 0, a bit n of a
\* token_modifiers_bitset stands for the n-th entry of token_modifiers.
legend_token_types ==
    <<"type", "parameter", "variable", "class", "party", "policy",
      "function">>

legend_token_modifiers == <<"declaration", "readonly", "static">>

\* The legend entry an index denotes, if it denotes one.
LegendEntry(token_type) ==
    IF token_type + 1 \in DOMAIN legend_token_types
    THEN Some(legend_token_types[token_type + 1])
    ELSE None

\* The modifiers whose bits are set in a bitset below 2^8; a bit beyond
\* the legend is the modifier "unknown".
RECURSIVE ModifiersOf(_, _)
ModifiersOf(bitset, n) ==
    IF bitset = 0 THEN {}
    ELSE (IF bitset % 2 = 1
          THEN {IF n + 1 \in DOMAIN legend_token_modifiers
                THEN legend_token_modifiers[n + 1] ELSE "unknown"}
          ELSE {})
         \cup ModifiersOf(bitset \div 2, n + 1)

\* u32::saturating_sub
saturating_sub(a, b) == IF a >= b THEN a - b ELSE 0

\* The character offset of the first occurrence of pat in hay, if any.
FindChars(hay, pat) ==
    LET at(i) == SubSeq(hay, i + 1, i + Len(pat)) = pat
        I == {i \in 0..Len(hay) : i + Len(pat) <= Len(hay) /\ at(i)}
    IN  IF I = {} THEN None
        ELSE Some(CHOOSE i \in I : \A j \in I : i <= j)

\* str::find: the byte offset of the first occurrence of pat in hay.
str_find(hay, pat) ==
    LET c == FindChars(hay, pat)
    IN  IF c.some THEN Some(StrLen(SubSeq(hay, 1, c.v))) ELSE None

\* &hay[n..]: the string from byte offset n, which is a character boundary.
StrFrom(hay, n) ==
    LET k == CHOOSE k \in 0..Len(hay) : StrLen(SubSeq(hay, 1, k)) = n
    IN  SubSeq(hay, k + 1, Len(hay))

extract_identifier_after_keyword(rope, span, keyword, identifier) ==
    LET start_char == span.start
        end_char == span.end
        slice == SubSeq(rope, start_char + 1, end_char)
        keyword_pos == str_find(slice, keyword)
        after_keyword == StrFrom(slice, keyword_pos.v + StrLen(keyword))
        id_pos == str_find(after_keyword, identifier)
        absolute_id_start ==
            start_char + keyword_pos.v + StrLen(keyword) + id_pos.v
        first_pos == str_find(slice, identifier)
    IN  IF start_char >= end_char THEN None
        ELSE IF keyword_pos.some /\ id_pos.some
        THEN Some(span_to_lsp_range(rope,
                Span(absolute_id_start,
                     absolute_id_start + StrLen(identifier))))
        ELSE IF first_pos.some
        THEN Some(span_to_lsp_range(rope,
                Span(start_char + first_pos.v,
                     start_char + first_pos.v + StrLen(identifier))))
        ELSE None

\* One loop of collect_semantic_tokens over the declarations of a kind:
\* the TokenInfo of every declaration whose name is found in its span.
RECURSIVE DeclarationTokens(_, _, _, _)
DeclarationTokens(rope, decls, keyword, token_type) ==
    IF decls = <<>> THEN <<>>
    ELSE LET range == extract_identifier_after_keyword(
                          rope, Head(decls).span, keyword,
                          Head(decls).name.value)
         IN  (IF range.some
              THEN <<[range |-> range.v, token_type |-> token_type,
                      token_modifiers |-> MOD_DECLARATION]>>
              ELSE <<>>)
             \o DeclarationTokens(rope, Tail(decls), keyword, token_type)

\* The comparison of the sort: by start line, then by start character.
TokenBefore(a, b) ==
    \/ a.range.start.line < b.range.start.line
    \/ /\ a.range.start.line = b.range.start.line
       /\ a.range.start.character < b.range.start.character

\* slice::sort_by, a stable sort: x goes after the elements of the sorted
\* sequence that are not after it.
RECURSIVE InsertSorted(_, _)
InsertSorted(sorted, x) ==
    IF sorted = <<>> THEN <<x>>
    ELSE IF TokenBefore(x, Head(sorted)) THEN <<x>> \o sorted
    ELSE <<Head(sorted)>> \o InsertSorted(Tail(sorted), x)

\* sort_by that leaves the tokens in the order of the loops.
sort_by_skipped(infos) == infos

RECURSIVE sort_by(_)
sort_by(infos) ==
    IF infos = <<>> THEN <<>>
    ELSE InsertSorted(sort_by(SubSeq(infos, 1, Len(infos) - 1)),
                      infos[Len(infos)])

\* Vec::dedup_by: of consecutive elements with the same range start and
\* end, the first is kept.
RECURSIVE dedup_by(_)
dedup_by(infos) ==
    IF Len(infos) <= 1 THEN infos
    ELSE LET rest == dedup_by(SubSeq(infos, 1, Len(infos) - 1))
             last == infos[Len(infos)]
         IN  IF /\ last.range.start = rest[Len(rest)].range.start
                /\ last.range.end = rest[Len(rest)].range.end
             THEN rest
             ELSE Append(rest, last)

\* The token_infos of collect_semantic_tokens when the encoding loop starts.
token_infos(ast, rope) ==
    dedup_by(sort_by(
        DeclarationTokens(rope, ast.parties, KwParty, TOKEN_PARTY)
        \o DeclarationTokens(rope, ast.policies, KwPolicy, TOKEN_POLICY)
        \o DeclarationTokens(rope, ast.types, KwType, TOKEN_TYPE)
        \o DeclarationTokens(rope, ast.assets, KwAsset, TOKEN_CLASS)
        \o DeclarationTokens(rope, ast.txs, KwTx, TOKEN_TRANSACTION)))

\* An encoding loop that moves (prev_line, prev_start) to a token it drops.
RECURSIVE EncodeLoopMovingOnDropped(_, _, _, _)
EncodeLoopMovingOnDropped(infos, n, prev_line, prev_start) ==
    IF n > Len(infos) THEN <<>>
    ELSE LET line == infos[n].range.start.line
             start == infos[n].range.start.character
             length == saturating_sub(infos[n].range.end.character, start)
             delta_line == saturating_sub(line, prev_line)
             delta_start == IF delta_line = 0
                            THEN saturating_sub(start, prev_start)
                            ELSE start
         IN  IF length = 0
             THEN EncodeLoopMovingOnDropped(infos, n + 1, line, start)
             ELSE <<[delta_line |-> delta_line,
                     delta_start |-> delta_start,
                     length |-> length,
                     token_type |-> infos[n].token_type,
                     token_modifiers_bitset |-> infos[n].token_modifiers]>>
                  \o EncodeLoopMovingOnDropped(infos, n + 1, line, start)

\* The encoding loop over token_infos from index n, after a token at
\* (prev_line, prev_start).
RECURSIVE EncodeLoop(_, _, _, _)
EncodeLoop(infos, n, prev_line, prev_start) ==
    IF n > Len(infos) THEN <<>>
    ELSE LET line == infos[n].range.start.line
             start == infos[n].range.start.character
             length == saturating_sub(infos[n].range.end.character, start)
             delta_line == saturating_sub(line, prev_line)
             delta_start == IF delta_line = 0
                            THEN saturating_sub(start, prev_start)
                            ELSE start
         IN  IF length = 0
             THEN EncodeLoop(infos, n + 1, prev_line, prev_start)
             ELSE <<[delta_line |-> delta_line,
                     delta_start |-> delta_start,
                     length |-> length,
                     token_type |-> infos[n].token_type,
                     token_modifiers_bitset |-> infos[n].token_modifiers]>>
                  \o EncodeLoop(infos, n + 1, line, start)

collect_semantic_tokens(ast, rope) ==
    EncodeLoop(token_infos(ast, rope), 1, 0, 0)

-----------------------------------------------------------------------------
(* The request handlers (impl LanguageServer for Context, src/server.rs)   *)
(*                                                                         *)
(* A handler is an operator of the document store and the request; it      *)
(* gives the reply together with the values it computed on the way.        *)
(***************************************************************************)

\* documents.get(uri) is None when the map has no entry for the URI, and
\* the stored rope otherwise.
NoDocument == None

Uris == {"file:///a.tx3", "file:///b.tx3"}

Location(uri, range) == [uri |-> uri, range |-> range]

\* The search of goto_definition in one transaction whose span contains
\* the offset: parameters, inputs, outputs, references.
DefinitionInTx(tx, identifier) ==
    OrElse(FirstSome([i \in DOMAIN tx.parameters.parameters |->
              IF tx.parameters.parameters[i].name.value = identifier.value
              THEN Some(tx.parameters.span) ELSE None]),
    OrElse(FirstSome([i \in DOMAIN tx.inputs |->
              IF tx.inputs[i].name = identifier.value
              THEN Some(tx.inputs[i].span) ELSE None]),
    OrElse(FirstSome([i \in DOMAIN tx.outputs |->
              IF tx.outputs[i].name.some
                 /\ tx.outputs[i].name.v = identifier.value
              THEN Some(tx.outputs[i].span) ELSE None]),
           FirstSome([i \in DOMAIN tx.references |->
              IF tx.references[i].name = identifier.value
              THEN Some(tx.references[i].span) ELSE None]))))

\* DefinitionSpan with the loops over parties and policies exchanged.
DefinitionSpanPoliciesFirst(ast, identifier, offset) ==
    OrElse(FirstSome([i \in DOMAIN ast.policies |->
              IF ast.policies[i].name.value = identifier.value
              THEN Some(ast.policies[i].span) ELSE None]),
    OrElse(FirstSome([i \in DOMAIN ast.parties |->
              IF ast.parties[i].name.value = identifier.value
              THEN Some(ast.parties[i].span) ELSE None]),
           FirstSome([i \in DOMAIN ast.txs |->
              IF span_contains(ast.txs[i].span, offset)
              THEN DefinitionInTx(ast.txs[i], identifier)
              ELSE None])))

\* DefinitionSpan that searches every transaction, whether its span
\* contains the offset or not.
DefinitionSpanAnyTx(ast, identifier, offset) ==
    OrElse(FirstSome([i \in DOMAIN ast.parties |->
              IF ast.parties[i].name.value = identifier.value
              THEN Some(ast.parties[i].span) ELSE None]),
    OrElse(FirstSome([i \in DOMAIN ast.policies |->
              IF ast.policies[i].name.value = identifier.value
              THEN Some(ast.policies[i].span) ELSE None]),
           FirstSome([i \in DOMAIN ast.txs |->
              DefinitionInTx(ast.txs[i], identifier)])))

\* The span goto_definition answers with for the identifier, if any:
\* parties, then policies, then the transactions that contain the offset.
DefinitionSpan(ast, identifier, offset) ==
    OrElse(FirstSome([i \in DOMAIN ast.parties |->
              IF ast.parties[i].name.value = identifier.value
              THEN Some(ast.parties[i].span) ELSE None]),
    OrElse(FirstSome([i \in DOMAIN ast.policies |->
              IF ast.policies[i].name.value = identifier.value
              THEN Some(ast.policies[i].span) ELSE None]),
           FirstSome([i \in DOMAIN ast.txs |->
              IF span_contains(ast.txs[i].span, offset)
              THEN DefinitionInTx(ast.txs[i], identifier)
              ELSE None])))

\* ParseFailed with the parser's failure passed on to the client.
ParseFailedAsError == Err("parse error")

\* The reply to a request for a text that does not parse.
ParseFailed == Ok(None)

\* server.rs binds the identifier of SymbolAtOffset::Identifier only; for
\* a TypeIdentifier no identifier is bound and no declaration is searched.
goto_definition(docs, uri, position) ==
    LET document == docs[uri]
        rope == document.v
        ast == parse_string(rope)
        offset == position_to_offset(rope, position)
        symbol == find_symbol_in_program(ast.v, offset)
        target == IF symbol.some /\ symbol.v.kind = "Identifier"
                  THEN DefinitionSpan(ast.v, symbol.v.id, offset)
                  ELSE None
    IN  IF ~document.some THEN [result |-> Ok(None)]
        ELSE IF ~ast.ok THEN [result |-> ParseFailed]
        ELSE [offset |-> offset, symbol |-> symbol, target |-> target,
              result |->
                IF target.some
                THEN Ok(Some(Location(uri,
                                span_to_lsp_range(rope, target.v))))
                ELSE Ok(None)]

Lit(str) == [lit |-> str]
\* The backquote character that opens and closes a Markdown code span.
BQ == [backquote |-> TRUE]
Name(chars) == [name |-> chars]
Debug(x) == [debug |-> x]

Hover(contents, range) == [contents |-> contents, range |-> range]

\* TxHoverText with the section of the outputs before that of the inputs.
TxHoverTextOutputsFirst(tx) ==
    LET params == tx.parameters.parameters
        ParamLines[i \in 0..Len(params)] ==
            IF i = 0 THEN <<>>
            ELSE ParamLines[i - 1] \o
                 <<Lit("- "), BQ, Name(params[i].name.value), BQ, Lit(": "), BQ,
                   Debug(params[i].type), BQ, Lit("\n")>>
        InputLines[i \in 0..Len(tx.inputs)] ==
            IF i = 0 THEN <<>>
            ELSE InputLines[i - 1] \o
                 <<Lit("- "), BQ, Name(tx.inputs[i].name), BQ, Lit("\n")>>
        OutputLines[i \in 0..Len(tx.outputs)] ==
            IF i = 0 THEN <<>>
            ELSE OutputLines[i - 1] \o
                 <<Lit("- "), BQ,
                   IF tx.outputs[i].name.some
                   THEN Name(tx.outputs[i].name.v) ELSE Lit("output"),
                   BQ, Lit("\n")>>
    IN  <<Lit("**Transaction**: "), BQ, Name(tx.name.value), BQ, Lit("\n\n")>>
        \o (IF params # <<>>
            THEN <<Lit("**Parameters**:\n")>> \o ParamLines[Len(params)]
                    \o <<Lit("\n")>>
            ELSE <<>>)
        \o (IF tx.outputs # <<>>
            THEN <<Lit("**Outputs**:\n")>> \o OutputLines[Len(tx.outputs)]
                    \o <<Lit("\n")>>
            ELSE <<>>)
        \o (IF tx.inputs # <<>>
            THEN <<Lit("**Inputs**:\n")>> \o InputLines[Len(tx.inputs)]
            ELSE <<>>)

\* The hover text of a transaction, built by the pushes of server.rs.
TxHoverText(tx) ==
    LET params == tx.parameters.parameters
        ParamLines[i \in 0..Len(params)] ==
            IF i = 0 THEN <<>>
            ELSE ParamLines[i - 1] \o
                 <<Lit("- "), BQ, Name(params[i].name.value), BQ, Lit(": "), BQ,
                   Debug(params[i].type), BQ, Lit("\n")>>
        InputLines[i \in 0..Len(tx.inputs)] ==
            IF i = 0 THEN <<>>
            ELSE InputLines[i - 1] \o
                 <<Lit("- "), BQ, Name(tx.inputs[i].name), BQ, Lit("\n")>>
        OutputLines[i \in 0..Len(tx.outputs)] ==
            IF i = 0 THEN <<>>
            ELSE OutputLines[i - 1] \o
                 <<Lit("- "), BQ,
                   IF tx.outputs[i].name.some
                   THEN Name(tx.outputs[i].name.v) ELSE Lit("output"),
                   BQ, Lit("\n")>>
    IN  <<Lit("**Transaction**: "), BQ, Name(tx.name.value), BQ, Lit("\n\n")>>
        \o (IF params # <<>>
            THEN <<Lit("**Parameters**:\n")>> \o ParamLines[Len(params)]
                    \o <<Lit("\n")>>
            ELSE <<>>)
        \o (IF tx.inputs # <<>>
            THEN <<Lit("**Inputs**:\n")>> \o InputLines[Len(tx.inputs)]
                    \o <<Lit("\n")>>
            ELSE <<>>)
        \o (IF tx.outputs # <<>>
            THEN <<Lit("**Outputs**:\n")>> \o OutputLines[Len(tx.outputs)]
            ELSE <<>>)

\* HoverInTx without the tests of the spans: every transaction answers.
HoverInTxAnywhere(rope, tx, offset) ==
    Some(Hover(TxHoverText(tx), span_to_lsp_range(rope, tx.span)))

\* HoverInTx with the span of the transaction tested first.
HoverInTxTransactionFirst(rope, tx, offset) ==
    IF span_contains(tx.span, offset)
    THEN Some(Hover(TxHoverText(tx), span_to_lsp_range(rope, tx.span)))
    ELSE None

\* The body of the loop of hover over the transactions.
HoverInTx(rope, tx, offset) ==
    OrElse(FirstSome([i \in DOMAIN tx.inputs |->
              IF span_contains(tx.inputs[i].span, offset)
              THEN Some(Hover(<<Lit("**Input**: "), BQ,
                                Name(tx.inputs[i].name),
                                BQ, Lit("\n\nTransaction input.")>>,
                              span_to_lsp_range(rope, tx.inputs[i].span)))
              ELSE None]),
    OrElse(FirstSome([i \in DOMAIN tx.outputs |->
              IF span_contains(tx.outputs[i].span, offset)
              THEN Some(Hover(<<Lit("**Output**: "), BQ,
                                IF tx.outputs[i].name.some
                                THEN Name(tx.outputs[i].name.v)
                                ELSE Lit("output"),
                                BQ, Lit("\n\nTransaction output.")>>,
                              span_to_lsp_range(rope, tx.outputs[i].span)))
              ELSE None]),
    OrElse(IF /\ span_contains(tx.parameters.span, offset)
              /\ tx.parameters.parameters # <<>>
           THEN Some(Hover(<<Lit("**Parameter**: "), BQ,
                             Name(tx.parameters.parameters[1].name.value),
                             BQ, Lit("\n\n**Type**: "), BQ,
                             Debug(tx.parameters.parameters[1].type),
                             BQ>>,
                           span_to_lsp_range(rope, tx.parameters.span)))
           ELSE None,
           IF span_contains(tx.span, offset)
           THEN Some(Hover(TxHoverText(tx),
                           span_to_lsp_range(rope, tx.span)))
           ELSE None)))

\* The hover of a top-level declaration that contains the offset.
DeclarationHover(rope, decls, offset, label, blurb) ==
    FirstSome([i \in DOMAIN decls |->
        IF span_contains(decls[i].span, offset)
        THEN Some(Hover(<<Lit(label), BQ, Name(decls[i].name.value), BQ,
                          Lit(blurb)>>,
                        span_to_lsp_range(rope, decls[i].span)))
        ELSE None])

hover(docs, uri, position) ==
    LET document == docs[uri]
        rope == document.v
        ast == parse_string(rope)
        offset == position_to_offset(rope, position)
        found ==
          OrElse(DeclarationHover(rope, ast.v.parties, offset,
                    "**Party**: ",
                    "\n\nA party in the transaction. It can be an address for a script or a wallet."),
          OrElse(DeclarationHover(rope, ast.v.policies, offset,
                    "**Policy**: ", "\n\nA policy definition."),
          OrElse(DeclarationHover(rope, ast.v.types, offset,
                    "**Type**: ", "\n\nA type definition."),
          OrElse(DeclarationHover(rope, ast.v.assets, offset,
                    "**Asset**: ", "\n\nAn asset definition."),
                 FirstSome([i \in DOMAIN ast.v.txs |->
                    HoverInTx(rope, ast.v.txs[i], offset)])))))
    IN  IF ~document.some THEN [result |-> Ok(None)]
        ELSE IF ~ast.ok THEN [result |-> ParseFailed]
        ELSE [offset |-> offset, result |-> Ok(found)]

semantic_tokens_full(docs, uri) ==
    LET document == docs[uri]
        rope == document.v
        ast == parse_string(rope)
    IN  IF ~document.some THEN [result |-> Ok(None)]
        ELSE IF ~ast.ok THEN [result |-> ParseFailed]
        ELSE [infos |-> token_infos(ast.v, rope),
              result |-> Ok(Some(collect_semantic_tokens(ast.v, rope)))]

\* make_symbol of document_symbol: the range is the selection range too.
make_symbol(name, detail, kind, range, children) ==
    [name |-> name, detail |-> Some(detail), kind |-> kind,
     range |-> range, selection_range |-> range, children |-> children]

ParameterSymbols(rope, tx) ==
    [i \in DOMAIN tx.parameters.parameters |->
        make_symbol(tx.parameters.parameters[i].name.value,
                    <<Lit("Parameter<"),
                      Debug(tx.parameters.parameters[i].type), Lit(">")>>,
                    "FIELD",
                    span_to_lsp_range(rope, tx.parameters.span), None)]

InputSymbols(rope, tx) ==
    [i \in DOMAIN tx.inputs |->
        make_symbol(tx.inputs[i].name, <<Lit("Input")>>, "OBJECT",
                    span_to_lsp_range(rope, tx.inputs[i].span), None)]

\* An output without a name is listed as "output".
OutputSymbols(rope, tx) ==
    [i \in DOMAIN tx.outputs |->
        make_symbol(IF tx.outputs[i].name.some
                    THEN tx.outputs[i].name.v ELSE KwOutput,
                    <<Lit("Output")>>, "OBJECT",
                    span_to_lsp_range(rope, tx.outputs[i].span), None)]

\* TxChildren with the inputs before the parameters.
TxChildrenInputsFirst(rope, tx) ==
    InputSymbols(rope, tx) \o ParameterSymbols(rope, tx)
        \o OutputSymbols(rope, tx)

\* The children of the symbol of a transaction.
TxChildren(rope, tx) ==
    ParameterSymbols(rope, tx) \o InputSymbols(rope, tx)
        \o OutputSymbols(rope, tx)

\* The symbols document_symbol pushes for a Program.
ProgramSymbols(rope, ast) ==
    [i \in DOMAIN ast.parties |->
        make_symbol(ast.parties[i].name.value, <<Lit("Party")>>, "OBJECT",
                    span_to_lsp_range(rope, ast.parties[i].span), None)]
    \o [i \in DOMAIN ast.policies |->
        make_symbol(ast.policies[i].name.value, <<Lit("Policy")>>, "KEY",
                    span_to_lsp_range(rope, ast.policies[i].span), None)]
    \o [i \in DOMAIN ast.txs |->
        make_symbol(ast.txs[i].name.value, <<Lit("Tx")>>, "METHOD",
                    span_to_lsp_range(rope, ast.txs[i].span),
                    Some(TxChildren(rope, ast.txs[i])))]

\* The symbols of a stored text: none when it does not parse.
ParsedSymbols(rope, ast) ==
    IF ast.ok THEN ProgramSymbols(rope, ast.v) ELSE <<>>

document_symbol(docs, uri) ==
    [result |->
        Ok(Some(IF docs[uri].some
                THEN ParsedSymbols(docs[uri].v, parse_string(docs[uri].v))
                ELSE <<>>))]

-----------------------------------------------------------------------------
(* Diagnostics (src/lib.rs) *)

ERROR == "ERROR"

\* parse_error_to_diagnostic with the range of the start of the text.
parse_error_to_diagnostic_at_origin(rope, err) ==
    [range |-> span_to_lsp_range(rope, Span(0, 0)),
     severity |-> Some(ERROR),
     source |-> Some(err.src),
     message |-> err.message]

parse_error_to_diagnostic(rope, err) ==
    [range |-> span_to_lsp_range(rope, err.span),
     severity |-> Some(ERROR),
     source |-> Some(err.src),
     message |-> err.message]

analyze_error_to_diagnostic(rope, err) ==
    [range |-> span_to_lsp_range(rope, err.span),
     severity |-> Some(ERROR),
     source |-> Some(IF err.src.some THEN err.src.v ELSE "tx3"),
     message |-> err.display]

\* analyze_report_to_diagnostic with the errors taken last to first.
analyze_report_to_diagnostic_reversed(rope, report) ==
    [i \in DOMAIN report.errors |->
        analyze_error_to_diagnostic(rope,
            report.errors[Len(report.errors) + 1 - i])]

analyze_report_to_diagnostic(rope, report) ==
    [i \in DOMAIN report.errors |->
        analyze_error_to_diagnostic(rope, report.errors[i])]

\* The errors tx3_lang::analyzing::analyze may report for a Program: the
\* analyzer is a collaborator outside the repository, and the model lets
\* it report any sequence of at most MaxErrors errors, each on a party or
\* on a transaction of the Program.
AnalyzeErrors(ast) ==
    {[span |-> ast.parties[i].span,
      display |-> "duplicate definition",
      src |-> None] : i \in DOMAIN ast.parties}
    \cup
    {[span |-> ast.txs[i].name.span,
      display |-> "not in scope",
      src |-> Some("source code")] : i \in DOMAIN ast.txs}

AnalyzeReports(ast) ==
    {[errors |-> es] : es \in SeqsUpTo(AnalyzeErrors(ast), MaxErrors)}

\* The diagnostics process_document returns for the text, given the report
\* of the analysis when the text parses.
process_document(t, analysis) ==
    LET ast == parse_string(t)
    IN  IF ast.ok THEN analyze_report_to_diagnostic(t, analysis)
        ELSE <<parse_error_to_diagnostic(t, ast.e)>>

-----------------------------------------------------------------------------
(* SpecIndex: the two conversions applied to a text, one after the other *)

NoPosition == [line |-> 0, character |-> 0]

NoReply == [op |-> "none"]

NoProgram == [parties |-> <<>>, policies |-> <<>>, types |-> <<>>,
              assets |-> <<>>, txs |-> <<>>]

\* The server after construction: no document, nothing sent.
\* What the client sent last for a URI: the content changes of its last
\* did_change, the text of its last did_open as one change of the whole
\* content, none after did_close and when it never opened the document.
OpenOf(t) == Some(<<t>>)

\* What the client sent last for a URI, given the entry the store has for
\* it when the server is first looked at.
Notified(document) ==
    IF document.some THEN OpenOf(document.v) ELSE None

InitServer ==
    /\ documents = [u \in Uris |-> NoDocument]
    /\ reply = NoReply
    /\ inflight = {}
    /\ published = [u \in Uris |-> None]
    /\ running = {}
    /\ notified = [u \in Uris |-> Notified(documents[u])]

\* The variables of SpecIndex in the other specifications.
IndexIdle ==
    /\ text = <<>>
    /\ tree = NoProgram
    /\ pc = "idle"
    /\ idx = 0
    /\ pos = NoPosition
    /\ off = 0

InitIndex ==
    /\ text \in Texts
    /\ tree = NoProgram
    /\ pc = "start"
    /\ idx = 0
    /\ pos = NoPosition
    /\ off = 0
    /\ InitServer

\* char_index_to_line_col(rope, o) for an offset o of the text.
ToLineCol ==
    /\ pc = "start"
    /\ \E o \in 0..Len(text) :
        /\ idx' = o
        /\ pos' = char_index_to_line_col(text, o)
    /\ pc' = "converted"
    /\ UNCHANGED <<text, off, tree>>
    /\ UNCHANGED serverVars

\* position_to_offset(text, position) for the position just computed.
ToOffset ==
    /\ pc = "converted"
    /\ off' = position_to_offset(text, pos)
    /\ pc' = "done"
    /\ UNCHANGED <<text, idx, pos, tree>>
    /\ UNCHANGED serverVars

\* The positions position_to_offset is asked for directly: lines and
\* columns up to one beyond the longest text.
IndexPositions ==
    [line : 0..(MaxTextLen + 1), character : 0..(MaxTextLen + 1)]

\* position_to_offset(text, p) for any position p, in the text or not.
ToOffsetAt ==
    /\ pc = "start"
    /\ \E p \in IndexPositions :
        /\ pos' = p
        /\ off' = position_to_offset(text, p)
    /\ pc' = "asked"
    /\ UNCHANGED <<text, idx, tree>>
    /\ UNCHANGED serverVars

NextIndex == ToLineCol \/ ToOffset \/ ToOffsetAt

SpecIndex == InitIndex /\ [][NextIndex]_vars

-----------------------------------------------------------------------------
(* SpecQuery: a request against a document store that holds any text of    *)
(* the model under the first URI and nothing under the second.  The        *)
(* handlers of the requests leave the store as it is, so a behaviour       *)
(* answers one request.                                                    *)
(***************************************************************************)

Positions == [line : 0..MaxLine, character : 0..MaxColumn]

InitQuery ==
    /\ IndexIdle
    /\ \E d \in {Some(t) : t \in KnownTexts} \cup {NoDocument} :
          documents = [u \in Uris |->
                         IF u = "file:///a.tx3" THEN d ELSE NoDocument]
    /\ reply = NoReply
    /\ inflight = {}
    /\ published = [u \in Uris |-> None]
    /\ running = {}
    /\ notified = [u \in Uris |-> Notified(documents[u])]

Request(op, uri, position, out) ==
    [op |-> op, uri |-> uri, position |-> position, out |-> out]

GotoDefinition ==
    /\ reply = NoReply
    /\ \E u \in Uris, p \in Positions :
          reply' = Request("goto_definition", u, p,
                           goto_definition(documents, u, p))
    /\ UNCHANGED <<documents, inflight, published, running, notified>>
    /\ UNCHANGED indexVars

HoverRequest ==
    /\ reply = NoReply
    /\ \E u \in Uris, p \in Positions :
          reply' = Request("hover", u, p, hover(documents, u, p))
    /\ UNCHANGED <<documents, inflight, published, running, notified>>
    /\ UNCHANGED indexVars

SemanticTokensFull ==
    /\ reply = NoReply
    /\ \E u \in Uris :
          reply' = Request("semantic_tokens_full", u, NoPosition,
                           semantic_tokens_full(documents, u))
    /\ UNCHANGED <<documents, inflight, published, running, notified>>
    /\ UNCHANGED indexVars

DocumentSymbol ==
    /\ reply = NoReply
    /\ \E u \in Uris :
          reply' = Request("document_symbol", u, NoPosition,
                           document_symbol(documents, u))
    /\ UNCHANGED <<documents, inflight, published, running, notified>>
    /\ UNCHANGED indexVars

NextQuery ==
    \/ GotoDefinition
    \/ HoverRequest
    \/ SemanticTokensFull
    \/ DocumentSymbol

SpecQuery == InitQuery /\ [][NextQuery]_vars

-----------------------------------------------------------------------------
(* SpecProcess: process_document called on a text of the model, with a     *)
(* report the analyzer may give for it.  The call stores the text and      *)
(* returns the diagnostics; a behaviour makes one call.                    *)
(***************************************************************************)

\* The reports analyze may return for the text; none is asked for when the
\* text does not parse.
Analyses(t) ==
    IF parse_string(t).ok THEN AnalyzeReports(parse_string(t).v)
    ELSE {[errors |-> <<>>]}

\* process_document storing the text under every URI.
ProcessDocumentEverywhere ==
    /\ reply = NoReply
    /\ \E u \in Uris, t \in KnownTexts :
          \E analysis \in Analyses(t) :
            /\ documents' = [v \in Uris |-> Some(t)]
            /\ reply' = Request("process_document", u, NoPosition,
                                [text |-> t, analysis |-> analysis,
                                 diagnostics |->
                                    process_document(t, analysis)])
    /\ UNCHANGED <<inflight, published, running, notified>>
    /\ UNCHANGED indexVars

ProcessDocument ==
    /\ reply = NoReply
    /\ \E u \in Uris, t \in KnownTexts :
          \E analysis \in Analyses(t) :
            /\ documents' = [documents EXCEPT ![u] = Some(t)]
            /\ reply' = Request("process_document", u, NoPosition,
                                [text |-> t, analysis |-> analysis,
                                 diagnostics |->
                                    process_document(t, analysis)])
    /\ UNCHANGED <<inflight, published, running, notified>>
    /\ UNCHANGED indexVars

InitProcess == IndexIdle /\ InitServer

NextProcess == ProcessDocument

SpecProcess == InitProcess /\ [][NextProcess]_vars

-----------------------------------------------------------------------------
(* SpecSync: the notifications of the client.  did_open and did_change     *)
(* store the text and compute the diagnostics in one step, then await      *)
(* publish_diagnostics, which another handler may overtake.                *)
(***************************************************************************)

Versions == {1, 2}

\* The texts the client opens and changes documents to.
SyncTexts ==
    LET good == Layout(
            << Party(<<"B", "o">>),
               Tx(<<"T">>, <<>>, <<Input(<<"s">>, <<"B", "o">>)>>) >>,
            <<CR, LF>>).text
    IN  {good, SubSeq(good, 1, Len(good) - 1)}

\* The calls of publish_diagnostics a handler may come to await after
\* process_document(uri, t): one for each report of the analysis.  The
\* text and the report are kept with the call.
Publications(uri, version, t) ==
    {[uri |-> uri, version |-> version,
      diagnostics |-> process_document(t, analysis),
      text |-> t, analysis |-> analysis] : analysis \in Analyses(t)}

\* A store whose references do not keep insert and remove waiting.
HeldNever(handlers, uri) == FALSE

\* A handler that found a document under the URI holds a reference to the
\* entry of the store until it returns.
Held(handlers, uri) == \E r \in handlers : r.uri = uri /\ r.document.some

\* did_open for a document of uris, while fewer than limit handlers await
\* publish_diagnostics.  insert and remove wait until no reference to the
\* entry is held.
DidOpenOf(uris, limit) ==
    /\ Cardinality(inflight) < limit
    /\ \E u \in uris, v \in Versions, t \in SyncTexts :
        /\ ~Held(running, u)
        /\ documents' = [documents EXCEPT ![u] = Some(t)]
        /\ notified' = [notified EXCEPT ![u] = OpenOf(t)]
        /\ \E n \in Publications(u, v, t) : inflight' = inflight \cup {n}
    /\ UNCHANGED <<reply, published, running>>
    /\ UNCHANGED indexVars

DidOpen == DidOpenOf(Uris, MaxInFlight)

\* did_change for a document of uris.  The text of did_change: that of the
\* first content change, the empty text when there is none.
DidChangeOf(uris, limit) ==
    /\ Cardinality(inflight) < limit
    /\ \E u \in uris, v \in Versions, changes \in SeqsUpTo(SyncTexts, 1) :
        LET t == IF changes # <<>> THEN changes[1] ELSE <<>>
        IN  /\ ~Held(running, u)
            /\ documents' = [documents EXCEPT ![u] = Some(t)]
            /\ notified' = [notified EXCEPT ![u] = Some(changes)]
            /\ \E n \in Publications(u, v, t) :
                  inflight' = inflight \cup {n}
    /\ UNCHANGED <<reply, published, running>>
    /\ UNCHANGED indexVars

DidChange == DidChangeOf(Uris, MaxInFlight)

\* A did_close that leaves the entry in the store.
DidCloseKeepingEntry ==
    /\ \E u \in Uris :
        /\ ~Held(running, u)
        /\ notified' = [notified EXCEPT ![u] = None]
    /\ UNCHANGED <<documents, reply, inflight, published, running>>
    /\ UNCHANGED indexVars

DidClose ==
    /\ \E u \in Uris :
        /\ ~Held(running, u)
        /\ documents' = [documents EXCEPT ![u] = NoDocument]
        /\ notified' = [notified EXCEPT ![u] = None]
    /\ UNCHANGED <<reply, inflight, published, running>>
    /\ UNCHANGED indexVars

\* A call of publish_diagnostics completes: the client has the diagnostics.
Publish ==
    /\ \E n \in inflight :
        /\ published' = [published EXCEPT ![n.uri] = Some(n)]
        /\ inflight' = inflight \ {n}
    /\ UNCHANGED <<documents, reply, running, notified>>
    /\ UNCHANGED indexVars

InitSync == IndexIdle /\ InitServer

NextSync == DidOpen \/ DidChange \/ DidClose \/ Publish

SpecSync == InitSync /\ [][NextSync]_vars

-----------------------------------------------------------------------------
(* SpecInterleave: the did_open and did_change handlers of one document,   *)
(* up to MaxInterleaved of them between their process_document and the end *)
(* of their publish_diagnostics.  The handlers are futures of the          *)
(* transport, which completes their awaits in any order.                   *)
(***************************************************************************)

MaxInterleaved == 2

InterleavedUris == {"file:///a.tx3"}

DidOpenInterleaved == DidOpenOf(InterleavedUris, MaxInterleaved)

DidChangeInterleaved == DidChangeOf(InterleavedUris, MaxInterleaved)

NextInterleave == DidOpenInterleaved \/ DidChangeInterleaved \/ Publish

SpecInterleave == InitSync /\ [][NextInterleave]_vars

-----------------------------------------------------------------------------
(* SpecSnapshot: one request handler running while the notifications of    *)
(* the client arrive.  The handler takes its reference to the entry of the *)
(* store in a first step and computes its reply in a second one, so any    *)
(* notification the store admits may run in between.                       *)
(***************************************************************************)

QueryOps ==
    {"hover", "goto_definition", "semantic_tokens_full", "document_symbol"}

\* The positions of the requests of SpecSnapshot: the start of the text and
\* column MaxSnapshotColumn of its first line.
SnapshotPositions ==
    {NoPosition, [line |-> 0, character |-> MaxSnapshotColumn]}

\* The positions a request of the kind carries.
PositionsOf(op) ==
    IF op \in {"hover", "goto_definition"} THEN SnapshotPositions
    ELSE {NoPosition}

\* The reply of the handler of the request on the store.
Handle(op, docs, uri, position) ==
    CASE op = "hover" -> hover(docs, uri, position).result
      [] op = "goto_definition" -> goto_definition(docs, uri, position).result
      [] op = "semantic_tokens_full" -> semantic_tokens_full(docs, uri).result
      [] op = "document_symbol" -> document_symbol(docs, uri).result

\* let document = self.documents.get(uri): the handler has the entry of the
\* URI, or None.  The text of the entry at this moment is kept with it.
GetDocument ==
    /\ reply = NoReply
    /\ running = {}
    /\ \E op \in QueryOps, u \in Uris :
          \E p \in PositionsOf(op) :
             running' = {[op |-> op, uri |-> u, position |-> p,
                          document |-> documents[u]]}
    /\ UNCHANGED <<documents, reply, inflight, published, notified>>
    /\ UNCHANGED indexVars

\* What document.value() is when the handler reads it: the entry of the
\* store the reference points to.
Value(docs, r) == IF r.document.some THEN docs[r.uri] ELSE NoDocument

\* The rest of the handler: it reads the text through its reference,
\* computes the reply and returns, which drops the reference.
Return ==
    /\ \E r \in running :
        /\ reply' =
              [op |-> r.op, uri |-> r.uri, position |-> r.position,
               document |-> r.document,
               out |-> Handle(r.op, [u \in Uris |-> Value(documents, r)],
                              r.uri, r.position)]
        /\ running' = running \ {r}
    /\ UNCHANGED <<documents, inflight, published, notified>>
    /\ UNCHANGED indexVars

InitSnapshot == IndexIdle /\ InitServer

NextSnapshot == GetDocument \/ Return \/ DidOpen \/ DidChange \/ DidClose

SpecSnapshot == InitSnapshot /\ [][NextSnapshot]_vars

-----------------------------------------------------------------------------
(* Commands (src/cmds, src/lib.rs) *)

\* The JSON values of the arguments of a command: strings, and a value
\* that is not a string.
Str(s) == [str |-> s]

NotAString == [number |-> 0]

as_str(value) == IF "str" \in DOMAIN value THEN Some(value.str) ELSE None

\* value.get(i).and_then(as_str).ok_or(InvalidCommandArgs(name))
Argument(value, i, name) ==
    IF (i + 1) \in DOMAIN value /\ as_str(value[i + 1]).some
    THEN Ok(as_str(value[i + 1]).v)
    ELSE Err([error |-> "InvalidCommandArgs", of |-> name])

\* Url::from_str: the URIs of the model are the strings that parse.
UrlFromStr(url_arg) ==
    IF url_arg \in Uris THEN Ok(url_arg) ELSE Err([error |-> "ParseError"])

get_document(docs, url_arg) ==
    LET uri == UrlFromStr(url_arg)
    IN  IF ~uri.ok THEN uri
        ELSE IF ~docs[uri.v].some
             THEN Err([error |-> "DocumentNotFound", of |-> uri.v])
             ELSE Ok(docs[uri.v].v)

\* Protocol::from_string(text).load() parses the text and analyzes the
\* Program; the protocol is that Program.
Load(ast, analysis) ==
    IF ast.ok /\ analysis.errors = <<>> THEN ast
    ELSE Err([error |-> "ProtocolLoadingError"])

get_document_protocol(docs, url_arg, analysis) ==
    LET document == get_document(docs, url_arg)
    IN  IF ~document.ok THEN document
        ELSE Load(parse_string(document.v), analysis)

\* The Program of the stored text, before any analysis.
ParsedProgram(ast) ==
    IF ast.ok THEN ast ELSE Err([error |-> "ProtocolLoadingError"])

get_document_program(docs, url_arg) ==
    LET document == get_document(docs, url_arg)
    IN  IF ~document.ok THEN document
        ELSE ParsedProgram(parse_string(document.v))

\* A handler that unwraps the report of an analysis with errors panics.
Panic == [panic |-> TRUE]

\* protocol.new_tx(tx_name): the transaction of that name, lowered.
NewTx(protocol, tx_name, lowered) ==
    IF lowered /\ \E i \in DOMAIN protocol.txs :
                     protocol.txs[i].name.value = tx_name
    THEN Ok(CHOOSE tx \in {protocol.txs[i] : i \in DOMAIN protocol.txs} :
               tx.name.value = tx_name)
    ELSE Err([error |-> "TxLoweringError"])

TirOf(prototx) ==
    IF ~prototx.ok THEN prototx
    ELSE Ok(Some([tir |-> prototx.v.name.value,
                  parameters |->
                     [i \in DOMAIN prototx.v.parameters.parameters |->
                        prototx.v.parameters.parameters[i].name.value]]))

generate_tir(docs, arguments, analysis, lowered) ==
    LET document_url == Argument(arguments, 0, "document_url")
        tx_name == Argument(arguments, 1, "tx_name")
        protocol == get_document_protocol(docs, document_url.v, analysis)
    IN  IF ~document_url.ok THEN document_url
        ELSE IF ~tx_name.ok THEN tx_name
        ELSE IF ~protocol.ok THEN protocol
        ELSE TirOf(NewTx(protocol.v, tx_name.v, lowered))

AstOf(program, analysis) ==
    IF ~program.ok THEN program
    ELSE IF analysis.errors # <<>> THEN Panic
    ELSE Ok(Some([ast |-> program.v]))

generate_ast(docs, arguments, analysis) ==
    LET document_url == Argument(arguments, 0, "document_url")
    IN  IF ~document_url.ok THEN document_url
        ELSE AstOf(get_document_program(docs, document_url.v), analysis)

DiagramOf(program, analysis) ==
    IF ~program.ok THEN program
    ELSE IF analysis.errors # <<>> THEN Panic
    ELSE Ok(Some([i \in DOMAIN program.v.txs |->
                    [tx_name |-> program.v.txs[i].name.value,
                     svg |-> program.v.txs[i]]]))

generate_diagram(docs, arguments, analysis) ==
    LET document_url == Argument(arguments, 0, "document_url")
    IN  IF ~document_url.ok THEN document_url
        ELSE DiagramOf(get_document_program(docs, document_url.v), analysis)

handle_command(docs, command, arguments, analysis, lowered) ==
    CASE command = "generate-tir" ->
            generate_tir(docs, arguments, analysis, lowered)
      [] command = "generate-ast" -> generate_ast(docs, arguments, analysis)
      [] command = "generate-diagram" ->
            generate_diagram(docs, arguments, analysis)
      [] OTHER -> Err([error |-> "InvalidCommand", of |-> command])

\* From<&Error> for ErrorCode
ErrorCode(err) ==
    IF err.error \in {"InvalidCommand", "ProtocolLoadingError",
                      "TxLoweringError"}
    THEN "InvalidRequest" ELSE "InvalidParams"

IntoJsonRpc(out) ==
    IF "ok" \in DOMAIN out /\ ~out.ok
    THEN Err([code |-> ErrorCode(out.e), message |-> out.e, data |-> None])
    ELSE out

execute_command(docs, command, arguments, analysis, lowered) ==
    [result |->
        IntoJsonRpc(handle_command(docs, command, arguments, analysis,
                                   lowered))]

-----------------------------------------------------------------------------
(* SpecCore: any one call of the operations that reach the document store, *)
(* on a store that holds any text of the model under the first URI.        *)
(***************************************************************************)

\* The ranges of semantic_tokens_range.
Ranges ==
    [start : [line : 0..1, character : {0}],
     end : [line : 0..1, character : {0}]]

\* The range is not used: the tokens are those of the whole document.
semantic_tokens_range(docs, uri, range) ==
    [result |-> semantic_tokens_full(docs, uri).result]

SemanticTokensRange ==
    /\ reply = NoReply
    /\ \E u \in Uris, range \in Ranges :
          reply' = [op |-> "semantic_tokens_range", uri |-> u,
                    range |-> range,
                    out |-> semantic_tokens_range(documents, u, range)]
    /\ UNCHANGED <<documents, inflight, published, running, notified>>
    /\ UNCHANGED indexVars

Commands == {"generate-tir", "generate-ast", "generate-diagram", "generate"}

\* The arguments of a command: at most a document URL and a name.
CommandArguments ==
    LET urls == {Str(u) : u \in Uris} \cup {Str("a.tx3"), NotAString}
        names == {Str(<<"T">>), Str(<<"X">>), NotAString}
    IN  {<<>>} \cup {<<u>> : u \in urls}
               \cup {<<u, n>> : u \in urls, n \in names}

\* The reports analyze may give for the document the arguments name.
CommandAnalyses(document) ==
    IF document.ok THEN Analyses(document.v) ELSE {[errors |-> <<>>]}

DocumentOf(docs, document_url) ==
    IF document_url.ok THEN get_document(docs, document_url.v)
    ELSE document_url

ExecuteCommand ==
    /\ reply = NoReply
    /\ \E command \in Commands, arguments \in CommandArguments,
          lowered \in BOOLEAN :
          \E analysis \in CommandAnalyses(
                DocumentOf(documents,
                           Argument(arguments, 0, "document_url"))) :
             reply' = [op |-> "execute_command", command |-> command,
                       arguments |-> arguments, analysis |-> analysis,
                       out |-> execute_command(documents, command, arguments,
                                               analysis, lowered)]
    /\ UNCHANGED <<documents, inflight, published, running, notified>>
    /\ UNCHANGED indexVars

InitCore == InitQuery

NextCore ==
    \/ GotoDefinition
    \/ HoverRequest
    \/ SemanticTokensFull
    \/ SemanticTokensRange
    \/ DocumentSymbol
    \/ ExecuteCommand
    \/ ProcessDocument

SpecCore == InitCore /\ [][NextCore]_vars

-----------------------------------------------------------------------------
(* The symbol classifier.  Its categories are the token types declared in  *)
(* collect_semantic_tokens; the search itself is the one the description   *)
(* of the classifier gives.                                                *)
(***************************************************************************)

Classifications ==
    {"Party", "Policy", "Type", "Asset", "Transaction", "Parameter", "Input",
     "Output", "Reference", "Variable"}

Named(defs, identifier) ==
    \E i \in DOMAIN defs : defs[i].name.value = identifier.value

\* The search of the declaration tables with the policies looked up
\* before the parties.
ClassifyDeclaredPoliciesFirst(program, identifier) ==
    IF Named(program.policies, identifier) THEN Some("Policy")
    ELSE IF Named(program.parties, identifier) THEN Some("Party")
    ELSE IF Named(program.types, identifier) THEN Some("Type")
    ELSE IF Named(program.assets, identifier) THEN Some("Asset")
    ELSE IF Named(program.txs, identifier) THEN Some("Transaction")
    ELSE None

\* The declaration tables, in their order: parties, policies, types,
\* assets, transactions.
ClassifyDeclared(program, identifier) ==
    IF Named(program.parties, identifier) THEN Some("Party")
    ELSE IF Named(program.policies, identifier) THEN Some("Policy")
    ELSE IF Named(program.types, identifier) THEN Some("Type")
    ELSE IF Named(program.assets, identifier) THEN Some("Asset")
    ELSE IF Named(program.txs, identifier) THEN Some("Transaction")
    ELSE None

\* The names of one transaction: parameters, inputs, outputs, references.
ClassifyInTx(tx, identifier) ==
    IF Named(tx.parameters.parameters, identifier) THEN Some("Parameter")
    ELSE IF \E i \in DOMAIN tx.inputs : tx.inputs[i].name = identifier.value
         THEN Some("Input")
    ELSE IF \E i \in DOMAIN tx.outputs :
               tx.outputs[i].name = Some(identifier.value)
         THEN Some("Output")
    ELSE IF \E i \in DOMAIN tx.references :
               tx.references[i].name = identifier.value
         THEN Some("Reference")
    ELSE None

\* The transactions whose span contains the offset, in their order.
ClassifyInTxs(program, identifier, offset) ==
    FirstSome([i \in DOMAIN program.txs |->
                 IF span_contains(program.txs[i].span, offset)
                 THEN ClassifyInTx(program.txs[i], identifier)
                 ELSE None])

\* classify with the transaction that contains the offset searched before
\* the declaration tables.
classify_in_tx_first(program, identifier, offset) ==
    OrElse(OrElse(ClassifyInTxs(program, identifier, offset),
                  ClassifyDeclared(program, identifier)),
           Some("Variable")).v

classify(program, identifier, offset) ==
    OrElse(OrElse(ClassifyDeclared(program, identifier),
                  ClassifyInTxs(program, identifier, offset)),
           Some("Variable")).v

\* The names the classifier is asked about besides those the locator
\* resolves: names the programs of the model declare, and one none does.
ClassifiedNames == {<<"A">>, <<"B", "o">>, <<"s">>, <<"o">>, <<"r">>, <<"z">>}

\* The identifiers at an offset: the one find_symbol_in_program resolves
\* there, and any name, placed there.
IdentifiersAt(symbol, offset) ==
    {Ident(n, offset) : n \in ClassifiedNames}
    \cup (IF symbol.some /\ symbol.v.kind = "Identifier"
          THEN {symbol.v.id} ELSE {})

ClassifyIn(uri, rope, ast) ==
    \E offset \in 0..Len(rope) :
       \E identifier \in
             IdentifiersAt(find_symbol_in_program(ast, offset), offset) :
          reply' = [op |-> "classify", uri |-> uri, offset |-> offset,
                    identifier |-> identifier,
                    out |-> classify(ast, identifier, offset)]

\* classify on the Program of a stored text that parses.
Classify ==
    /\ reply = NoReply
    /\ \E u \in Uris :
        /\ documents[u].some
        /\ parse_string(documents[u].v).ok
        /\ ClassifyIn(u, documents[u].v, parse_string(documents[u].v).v)
    /\ UNCHANGED <<documents, inflight, published, running, notified>>
    /\ UNCHANGED indexVars

InitClassify == InitQuery

NextClassify == Classify

SpecClassify == InitClassify /\ [][NextClassify]_vars

-----------------------------------------------------------------------------
(* SpecVisit: find_symbol_in_program applied to a Program and an offset.   *)
(* The Programs are not those of a parse: they hold an identifier in every *)
(* place the visitor looks at, and the spans of up to MaxNear of them are  *)
(* 0..1, those of all the others 2..3, so that several places contain the  *)
(* same offset.  The value of an identifier names its place.               *)
(***************************************************************************)

\* The places of the identifiers of transaction T, in the order of the
\* fields of a TxDef.
TxPlaces ==
    <<"T.name", "T.p1.name", "T.p1.type", "T.p2.name", "T.p2.type",
      "T.input", "T.output", "T.mint", "T.reference", "T.adhoc",
      "T.collateral", "T.signers", "T.validity", "T.burn", "T.metadata">>

\* The places of the other declarations of the Program.
DeclarationPlaces ==
    <<"U.name", "asset1", "asset2", "type1", "type2", "party1", "party2",
      "policy1", "policy2">>

Places ==
    {TxPlaces[i] : i \in DOMAIN TxPlaces}
    \cup {DeclarationPlaces[i] : i \in DOMAIN DeclarationPlaces}

RECURSIVE SetsUpTo(_, _)
SetsUpTo(S, n) ==
    IF n = 0 THEN {{}}
    ELSE LET smaller == SetsUpTo(S, n - 1)
         IN  smaller \cup {s \cup {x} : s \in smaller, x \in S}

SpanAt(near, place) == IF place \in near THEN Span(0, 1) ELSE Span(2, 3)

IdAt(near, place) == [value |-> place, span |-> SpanAt(near, place)]

ExprAt(near, place) == [kind |-> "Identifier", id |-> IdAt(near, place)]

ParamAt(near, name, type) ==
    [name |-> IdAt(near, name),
     type |-> [type |-> [kind |-> "Custom", id |-> IdAt(near, type)],
               span |-> SpanAt(near, type)]]

\* Transaction T: two parameters and one block of every kind.
TxT(near) ==
    [name |-> IdAt(near, "T.name"), span |-> Span(0, 3),
     parameters |->
        [parameters |-> <<ParamAt(near, "T.p1.name", "T.p1.type"),
                          ParamAt(near, "T.p2.name", "T.p2.type")>>,
         span |-> Span(0, 3)],
     inputs |-> <<[name |-> "i", span |-> Span(0, 3),
                   fields |-> <<[kind |-> "From",
                                 e |-> ExprAt(near, "T.input")]>>]>>,
     outputs |-> <<[name |-> None, span |-> Span(0, 3),
                    fields |-> <<[kind |-> "To",
                                  e |-> ExprAt(near, "T.output")]>>]>>,
     mints |-> <<[fields |-> <<[kind |-> "Amount",
                                e |-> ExprAt(near, "T.mint")]>>]>>,
     references |-> <<[name |-> "r", span |-> Span(0, 3),
                       ref |-> ExprAt(near, "T.reference")]>>,
     adhoc |-> <<[e |-> ExprAt(near, "T.adhoc")]>>,
     collateral |-> <<[fields |-> <<[kind |-> "Ref",
                                     e |-> ExprAt(near, "T.collateral")]>>]>>,
     signers |-> Some([signers |-> <<ExprAt(near, "T.signers")>>]),
     validity |-> Some([fields |-> <<[kind |-> "SinceSlot",
                                      e |-> ExprAt(near, "T.validity")]>>]),
     burn |-> Some([fields |-> <<[kind |-> "Amount",
                                  e |-> ExprAt(near, "T.burn")]>>]),
     metadata |-> Some([e |-> ExprAt(near, "T.metadata")])]

\* Transaction U: a name and nothing else.
TxU(near) ==
    [name |-> IdAt(near, "U.name"), span |-> Span(0, 3),
     parameters |-> [parameters |-> <<>>, span |-> Span(0, 3)],
     inputs |-> <<>>, outputs |-> <<>>, mints |-> <<>>, references |-> <<>>,
     adhoc |-> <<>>, collateral |-> <<>>, signers |-> None,
     validity |-> None, burn |-> None, metadata |-> None]

\* An asset whose policy is an identifier; its own name is elsewhere.
AssetAt(near, place) ==
    [name |-> [value |-> "asset", span |-> Span(4, 5)], span |-> Span(0, 5),
     policy |-> ExprAt(near, place), asset_name |-> [kind |-> "Number"]]

TypeAt(near, place) ==
    [name |-> IdAt(near, place), span |-> Span(0, 3), cases |-> <<>>]

PartyAt(near, place) ==
    [name |-> IdAt(near, place), span |-> SpanAt(near, place)]

PolicyAt(near, place) ==
    [name |-> IdAt(near, place), span |-> SpanAt(near, place),
     value |-> [kind |-> "Assign"]]

VisitProgram(near) ==
    [txs |-> <<TxT(near), TxU(near)>>,
     assets |-> <<AssetAt(near, "asset1"), AssetAt(near, "asset2")>>,
     types |-> <<TypeAt(near, "type1"), TypeAt(near, "type2")>>,
     parties |-> <<PartyAt(near, "party1"), PartyAt(near, "party2")>>,
     policies |-> <<PolicyAt(near, "policy1"), PolicyAt(near, "policy2")>>]

InitVisit ==
    /\ text = <<>>
    /\ pc = "idle"
    /\ idx = 0
    /\ pos = NoPosition
    /\ off = 0
    /\ tree \in {VisitProgram(near) : near \in SetsUpTo(Places, MaxNear)}
    /\ InitServer

FindSymbolInProgram ==
    /\ reply = NoReply
    /\ \E offset \in 0..MaxOffset :
          reply' = [op |-> "find_symbol_in_program", offset |-> offset,
                    out |-> find_symbol_in_program(tree, offset)]
    /\ UNCHANGED <<documents, inflight, published, running, notified>>
    /\ UNCHANGED indexVars

NextVisit == FindSymbolInProgram

SpecVisit == InitVisit /\ [][NextVisit]_vars

-----------------------------------------------------------------------------
(* The sort, the removal of duplicates and the encoding loop of            *)
(* collect_semantic_tokens (src/lib.rs) over candidate tokens of any range: *)
(* the range of a candidate is what span_to_lsp_range returns for the place *)
(* the search found, so it can be empty or end on a later line.             *)

MaxCandidates == 3

\* The positions of the candidate ranges.
TokenPositions ==
    {[line |-> 0, character |-> 0], [line |-> 0, character |-> 1],
     [line |-> 0, character |-> 2],
     [line |-> 1, character |-> 0], [line |-> 1, character |-> 1]}

PositionBefore(a, b) ==
    \/ a.line < b.line
    \/ a.line = b.line /\ a.character <= b.character

\* The ranges of a span whose start is not after its end.
TokenRanges ==
    {[start |-> s, end |-> e] :
        <<s, e>> \in {p \in TokenPositions \X TokenPositions :
                        PositionBefore(p[1], p[2])}}

RECURSIVE CandidatesUpTo(_)
CandidatesUpTo(n) ==
    IF n = 0 THEN {<<>>}
    ELSE LET shorter == CandidatesUpTo(n - 1)
         IN  shorter \cup
             {Append(c, [range |-> r, token_type |-> TOKEN_PARTY,
                         token_modifiers |-> MOD_DECLARATION]) :
                 c \in shorter, r \in TokenRanges}

InitEncode ==
    /\ IndexIdle
    /\ InitServer

\* collect_semantic_tokens from the sort on, for the candidates the loops
\* over the declarations have pushed.
EncodeTokens ==
    /\ reply = NoReply
    /\ \E candidates \in CandidatesUpTo(MaxCandidates) :
          LET infos == dedup_by(sort_by(candidates))
          IN  reply' = [op |-> "collect_semantic_tokens",
                        infos |-> infos,
                        out |-> EncodeLoop(infos, 1, 0, 0)]
    /\ UNCHANGED <<indexVars, documents, inflight, published, running,
                   notified>>

NextEncode == EncodeTokens

SpecEncode == InitEncode /\ [][NextEncode]_vars

-----------------------------------------------------------------------------
(* Claims *)

\* The text stored for the URI of the request answered last, and the
\* Program the parser returns for it.
StoredText == documents[reply.uri].v

StoredAst == parse_string(StoredText).v

Elements(seq) == {seq[i] : i \in DOMAIN seq}

\* C1: for every text and every offset o in 0..len(text), converting o to
\* (line, column) with char_index_to_line_col and back with
\* position_to_offset returns o.
RoundTripIsIdentity == pc = "done" => off = idx

\* C2: the span of every identifier that find_symbol_in_program returns for
\* an offset contains that offset.
ResolvedSpanContainsOffset ==
    (/\ reply.op = "goto_definition"
     /\ "symbol" \in DOMAIN reply.out
     /\ reply.out.symbol.some
     /\ reply.out.symbol.v.kind = "Identifier")
    => in_span(reply.out.symbol.v.id.span, reply.out.offset)

\* The declarations goto_definition searches for an offset, each with its
\* name and its own span: the parties, the policies and, of every
\* transaction that contains the offset, the parameters (from the name to
\* the end of the type), the inputs, the outputs and the references.
Declarations(ast, offset) ==
    {[name |-> d.name.value, span |-> d.span] :
        d \in Elements(ast.parties) \cup Elements(ast.policies)}
    \cup UNION {
        {[name |-> d.name.value,
          span |-> Span(d.name.span.start, d.type.span.end)] :
            d \in Elements(tx.parameters.parameters)}
        \cup {[name |-> d.name, span |-> d.span] :
            d \in Elements(tx.inputs) \cup Elements(tx.references)}
        \cup {[name |-> d.name.v, span |-> d.span] :
            d \in {o \in Elements(tx.outputs) : o.name.some}} :
        tx \in {t \in Elements(ast.txs) : span_contains(t.span, offset)}}

\* C3: a location goto_definition returns is the span of a declaration
\* whose name is the text of the identifier resolved at the offset: a
\* party, a policy or, in a transaction that contains the offset, a
\* parameter, input, output or reference itself.
GotoReturnsDeclarationSpan ==
    (/\ reply.op = "goto_definition"
     /\ "target" \in DOMAIN reply.out
     /\ reply.out.target.some)
    => \E d \in Declarations(StoredAst, reply.out.offset) :
          /\ d.name = reply.out.symbol.v.id.value
          /\ reply.out.result =
                Ok(Some(Location(reply.uri,
                                 span_to_lsp_range(StoredText, d.span))))

\* The parties named by the identifier of a `from` field of an input block
\* when the offset lies in that identifier.
FromParties(ast, offset) ==
    {p \in Elements(ast.parties) :
        \E tx \in Elements(ast.txs) : \E input \in Elements(tx.inputs) :
            \E field \in Elements(input.fields) :
                /\ field.kind = "From"
                /\ field.e.kind = "Identifier"
                /\ field.e.id.value = p.name.value
                /\ in_span(field.e.id.span, offset)}

\* C4: when the offset lies in the identifier P of a `from` field and the
\* program declares a party P, goto_definition returns the span of the
\* declaration of party P, whatever policy or transaction-scoped
\* declaration has the same name.
GotoFromPartyReturnsParty ==
    (reply.op = "goto_definition" /\ "offset" \in DOMAIN reply.out)
    => \A p \in FromParties(StoredAst, reply.out.offset) :
          reply.out.result =
              Ok(Some(Location(reply.uri,
                               span_to_lsp_range(StoredText, p.span))))

\* C4, witness: the request was answered in the `from` identifier A of a
\* program that declares a party A and a policy A.
GotoFromPartyWitness ==
    /\ reply.op = "goto_definition"
    /\ "offset" \in DOMAIN reply.out
    /\ \E p \in FromParties(StoredAst, reply.out.offset) :
          \E q \in Elements(StoredAst.policies) : q.name.value = p.name.value
    /\ reply.out.result.v.some

\* C5: for a stored text that does not parse, hover, goto_definition and
\* semantic_tokens_full reply Ok(None), at every position.
UnparseableGivesNoResult ==
    (/\ reply.op \in {"hover", "goto_definition", "semantic_tokens_full"}
     /\ documents[reply.uri].some
     /\ StoredText \in BrokenTexts)
    => reply.out.result = Ok(None)

\* C5, witness: hover was answered away from the origin of a stored text
\* that does not parse.
UnparseableWitness ==
    /\ reply.op = "hover"
    /\ documents[reply.uri].some
    /\ StoredText \in BrokenTexts
    /\ reply.position.line = 1
    /\ reply.position.character = 2

\* C6: for a text that does not parse, process_document gives exactly one
\* diagnostic: ERROR severity, the range of the parser error's span, the
\* message and the source of the parser error.
ParseFailureGivesOneDiagnostic ==
    (reply.op = "process_document" /\ ~parse_string(reply.out.text).ok)
    => reply.out.diagnostics =
          <<[range |-> span_to_lsp_range(
                           reply.out.text,
                           parse_string(reply.out.text).e.span),
             severity |-> Some(ERROR),
             source |-> Some(parse_string(reply.out.text).e.src),
             message |-> parse_string(reply.out.text).e.message]>>

\* C6, witness: process_document returned for a text that does not parse,
\* whose parser error lies beyond the first column of a later line.
ParseFailureWitness ==
    /\ reply.op = "process_document"
    /\ ~parse_string(reply.out.text).ok
    /\ Len(reply.out.diagnostics) = 1
    /\ reply.out.diagnostics[1].range.start.line > 0
    /\ reply.out.diagnostics[1].range.start.character > 0

\* C7: for a text that parses and whose analysis reports n errors,
\* process_document gives n diagnostics, the i-th with ERROR severity and
\* the span, the display string and the source label of the i-th error,
\* "tx3" when the error has no source label.
AnalyzerErrorsBecomeDiagnostics ==
    (reply.op = "process_document" /\ parse_string(reply.out.text).ok)
    => /\ Len(reply.out.diagnostics) = Len(reply.out.analysis.errors)
       /\ \A i \in DOMAIN reply.out.analysis.errors :
             reply.out.diagnostics[i] =
               [range |-> span_to_lsp_range(
                              reply.out.text,
                              reply.out.analysis.errors[i].span),
                severity |-> Some(ERROR),
                source |-> Some(IF reply.out.analysis.errors[i].src.some
                                THEN reply.out.analysis.errors[i].src.v
                                ELSE "tx3"),
                message |-> reply.out.analysis.errors[i].display]

\* C7, witness: process_document returned two diagnostics for two
\* different analyzer errors, the first without a source label.
AnalyzerErrorsWitness ==
    /\ reply.op = "process_document"
    /\ parse_string(reply.out.text).ok
    /\ Len(reply.out.analysis.errors) = 2
    /\ ~reply.out.analysis.errors[1].src.some
    /\ reply.out.analysis.errors[2].src.some
    /\ Len(reply.out.diagnostics) = 2

\* The absolute (line, start column) of the tokens from index n of an
\* encoded stream, the token before them at (line, start).
RECURSIVE Integrate(_, _, _, _)
Integrate(tokens, n, line, start) ==
    IF n > Len(tokens) THEN <<>>
    ELSE LET l == line + tokens[n].delta_line
             s == IF tokens[n].delta_line = 0
                  THEN start + tokens[n].delta_start
                  ELSE tokens[n].delta_start
         IN  <<[line |-> l, character |-> s]>>
                \o Integrate(tokens, n + 1, l, s)

\* C8: integrating the (delta_line, delta_start) of the stream from (0, 0)
\* gives the start of every token of the sorted, deduplicated list, in
\* order.
DeltasIntegrateToTokenStarts ==
    (reply.op = "semantic_tokens_full" /\ "infos" \in DOMAIN reply.out)
    => Integrate(reply.out.result.v.v, 1, 0, 0)
          = [i \in DOMAIN reply.out.infos |-> reply.out.infos[i].range.start]

\* C8, witness: a stream of four tokens whose declarations stand on one
\* line, in another order than that of the loops that collect them.
DeltasIntegrateWitness ==
    /\ reply.op = "semantic_tokens_full"
    /\ "infos" \in DOMAIN reply.out
    /\ Len(reply.out.infos) = 4
    /\ Len(reply.out.result.v.v) = 4
    /\ reply.out.infos[1].token_type = TOKEN_POLICY
    /\ \A i \in 1..4 : reply.out.infos[i].range.start.line = 0

\* C9: the token list has exactly one token for every identifier that
\* find_symbol_in_program resolves at some offset of the text.
EveryResolvedIdentifierHasOneToken ==
    (reply.op = "semantic_tokens_full" /\ "infos" \in DOMAIN reply.out)
    => \A o \in 0..Len(StoredText) :
          LET symbol == find_symbol_in_program(StoredAst, o)
          IN  (symbol.some /\ symbol.v.kind = "Identifier") =>
                Cardinality(
                    {i \in DOMAIN reply.out.infos :
                        reply.out.infos[i].range =
                            span_to_lsp_range(StoredText, symbol.v.id.span)})
                  = 1

\* The number of characters of the line of the rope, its line ending (LF
\* or CR LF) not counted.
LineChars(rope, line) ==
    LET from == line_to_char(rope, line)
        breaks == {k \in (from + 1)..Len(rope) : rope[k] = LF}
        to == IF breaks = {} THEN Len(rope)
              ELSE (CHOOSE k \in breaks : \A j \in breaks : k <= j) - 1
    IN  IF to > from /\ rope[to] = CR THEN to - 1 - from ELSE to - from

\* The index of the last line of the rope.
LastLine(rope) == char_to_line(rope, Len(rope))

\* C11: for a line of the text, position_to_offset returns the character
\* offset of the start of the line plus the column, clamped to the number
\* of characters of the line.
OffsetIsLineStartPlusClampedColumn ==
    (pc = "asked" /\ pos.line <= LastLine(text))
    => off = line_to_char(text, pos.line)
                + Min(pos.character, LineChars(text, pos.line))

\* C12: for a line beyond the last line of the text, position_to_offset
\* returns the length of the text.
OffsetBeyondLastLineIsEndOfText ==
    (pc = "asked" /\ pos.line > LastLine(text)) => off = Len(text)

\* The spans hover tests: those of the parties, policies, types, assets
\* and transactions and, in every transaction, those of the inputs, the
\* outputs and the parameter list.
HoverSpans(ast) ==
    {d.span : d \in Elements(ast.parties) \cup Elements(ast.policies)
                \cup Elements(ast.types) \cup Elements(ast.assets)
                \cup Elements(ast.txs)}
    \cup UNION {
        {d.span : d \in Elements(tx.inputs) \cup Elements(tx.outputs)}
        \cup {tx.parameters.span} : tx \in Elements(ast.txs)}

\* C13: hover replies Ok(None) when the document is not in the store, and
\* when none of the spans it tests contains the offset.
HoverOutsideGivesNoResult ==
    reply.op = "hover" =>
        /\ (~documents[reply.uri].some) => reply.out.result = Ok(None)
        /\ (/\ "offset" \in DOMAIN reply.out
            /\ \A span \in HoverSpans(StoredAst) :
                  ~span_contains(span, reply.out.offset))
           => reply.out.result = Ok(None)

\* C13, witness: hover was answered between two declarations of a program
\* with a transaction, at an offset no span contains.
HoverOutsideWitness ==
    /\ reply.op = "hover"
    /\ "offset" \in DOMAIN reply.out
    /\ StoredAst.txs # <<>>
    /\ reply.out.offset > 0
    /\ reply.out.offset < Len(StoredText)
    /\ \A span \in HoverSpans(StoredAst) :
          ~span_contains(span, reply.out.offset)
    /\ reply.out.result = Ok(None)

\* C14: goto_definition replies Ok(None) when no symbol is resolved at the
\* offset, and when the text of the resolved identifier is the name of no
\* party, no policy and no parameter, input, output or reference of a
\* transaction that contains the offset.
GotoUnmatchedGivesNoResult ==
    (reply.op = "goto_definition" /\ "symbol" \in DOMAIN reply.out)
    => ((\/ ~reply.out.symbol.some
         \/ /\ reply.out.symbol.v.kind = "Identifier"
            /\ \A d \in Declarations(StoredAst, reply.out.offset) :
                  d.name # reply.out.symbol.v.id.value)
        => reply.out.result = Ok(None))

\* C14, witness: the identifier resolved in one transaction is the name of
\* an output of another transaction only, and the reply is Ok(None).
GotoUnmatchedWitness ==
    /\ reply.op = "goto_definition"
    /\ "symbol" \in DOMAIN reply.out
    /\ reply.out.symbol.some
    /\ reply.out.symbol.v.kind = "Identifier"
    /\ \A d \in Declarations(StoredAst, reply.out.offset) :
          d.name # reply.out.symbol.v.id.value
    /\ \E tx \in Elements(StoredAst.txs) :
          /\ ~span_contains(tx.span, reply.out.offset)
          /\ \E output \in Elements(tx.outputs) :
                /\ output.name.some
                /\ output.name.v = reply.out.symbol.v.id.value
    /\ reply.out.result = Ok(None)

\* The pieces of a hover text that carry its content: the section titles,
\* the names, the types and the word that stands for an unnamed output.
Outline(contents) ==
    SelectSeq(contents,
        LAMBDA x : \/ "name" \in DOMAIN x
                   \/ "debug" \in DOMAIN x
                   \/ ("lit" \in DOMAIN x
                       /\ x.lit \in {"**Transaction**: ", "**Parameters**:\n",
                                     "**Inputs**:\n", "**Outputs**:\n",
                                     "output"}))

RECURSIVE Concat(_)
Concat(seqs) == IF seqs = <<>> THEN <<>> ELSE Head(seqs) \o Concat(Tail(seqs))

\* The outline the hover text of a transaction is to have: the name, then
\* the parameters with their types, the inputs and the outputs, each
\* section only when its list is not empty.
TxOutline(tx) ==
    <<Lit("**Transaction**: "), Name(tx.name.value)>>
    \o (IF tx.parameters.parameters = <<>> THEN <<>>
        ELSE <<Lit("**Parameters**:\n")>> \o
             Concat([i \in DOMAIN tx.parameters.parameters |->
                <<Name(tx.parameters.parameters[i].name.value),
                  Debug(tx.parameters.parameters[i].type)>>]))
    \o (IF tx.inputs = <<>> THEN <<>>
        ELSE <<Lit("**Inputs**:\n")>> \o
             [i \in DOMAIN tx.inputs |-> Name(tx.inputs[i].name)])
    \o (IF tx.outputs = <<>> THEN <<>>
        ELSE <<Lit("**Outputs**:\n")>> \o
             [i \in DOMAIN tx.outputs |->
                IF tx.outputs[i].name.some
                THEN Name(tx.outputs[i].name.v) ELSE Lit("output")])

\* The hover of the request answered last is that of a transaction.
HoverOfTransaction ==
    /\ reply.op = "hover"
    /\ "offset" \in DOMAIN reply.out
    /\ reply.out.result.v.some
    /\ reply.out.result.v.v.contents[1] = Lit("**Transaction**: ")

\* C15: the hover text of a transaction is its name, then a Parameters
\* section with the name and the type of every parameter, an Inputs
\* section with the input names and an Outputs section with the output
\* names, in this order, each section present exactly when its list is
\* not empty.
TxHoverTextHasSectionsInOrder ==
    HoverOfTransaction
    => \E tx \in Elements(StoredAst.txs) :
          /\ span_contains(tx.span, reply.out.offset)
          /\ Outline(reply.out.result.v.v.contents) = TxOutline(tx)

\* C15, witness: the hover of a transaction with two parameters, an input
\* and an output.
TxHoverTextWitness ==
    /\ HoverOfTransaction
    /\ \E tx \in Elements(StoredAst.txs) :
          /\ span_contains(tx.span, reply.out.offset)
          /\ Len(tx.parameters.parameters) = 2
          /\ tx.inputs # <<>>
          /\ tx.outputs # <<>>
          /\ Outline(reply.out.result.v.v.contents) = TxOutline(tx)

\* The names of a sequence of symbols.
SymbolNames(symbols) == [i \in DOMAIN symbols |-> symbols[i].name]

\* The names of a sequence of declarations.
DeclaredNames(decls) == [i \in DOMAIN decls |-> decls[i].name.value]

\* document_symbol was answered for a stored text that parses.
OutlineOfProgram ==
    /\ reply.op = "document_symbol"
    /\ documents[reply.uri].some
    /\ StoredText \in GoodTexts

\* C16: document_symbol lists one symbol without children for every
\* party, then one for every policy, then one for every transaction, whose
\* children are its parameters, then its inputs, then its outputs, all in
\* the order of their declaration; nothing is listed for types and assets.
OutlineListsPartiesPoliciesTxs ==
    OutlineOfProgram =>
      LET symbols == reply.out.result.v.v
          np == Len(StoredAst.parties)
          nq == Len(StoredAst.policies)
      IN  /\ SymbolNames(symbols) =
                DeclaredNames(StoredAst.parties)
                \o DeclaredNames(StoredAst.policies)
                \o DeclaredNames(StoredAst.txs)
          /\ \A i \in 1..(np + nq) : ~symbols[i].children.some
          /\ \A i \in DOMAIN StoredAst.txs :
                /\ symbols[np + nq + i].children.some
                /\ SymbolNames(symbols[np + nq + i].children.v) =
                      DeclaredNames(StoredAst.txs[i].parameters.parameters)
                      \o [k \in DOMAIN StoredAst.txs[i].inputs |->
                            StoredAst.txs[i].inputs[k].name]
                      \o [k \in DOMAIN StoredAst.txs[i].outputs |->
                            IF StoredAst.txs[i].outputs[k].name.some
                            THEN StoredAst.txs[i].outputs[k].name.v
                            ELSE KwOutput]
                /\ \A k \in DOMAIN symbols[np + nq + i].children.v :
                      ~symbols[np + nq + i].children.v[k].children.some

\* C16, witness: the outline of a program with a party, a policy and a
\* transaction that has parameters, an input and an output.
OutlineWitness ==
    /\ OutlineOfProgram
    /\ StoredAst.parties # <<>>
    /\ StoredAst.policies # <<>>
    /\ \E tx \in Elements(StoredAst.txs) :
          /\ Len(tx.parameters.parameters) = 2
          /\ tx.inputs # <<>>
          /\ tx.outputs # <<>>
    /\ Len(reply.out.result.v.v) = 3

\* C16, witness: the outline of a program with a type and two assets has
\* a symbol for its policy only.
OutlineWithoutTypesWitness ==
    /\ OutlineOfProgram
    /\ StoredAst.types # <<>>
    /\ StoredAst.assets # <<>>
    /\ Len(reply.out.result.v.v) = 1

StoreIsNeverWritten == [][documents' = documents]_vars

\* C18, amended: process_document(uri, text) sets the entry of uri to the
\* text and leaves the other entries as they are; every other operation of
\* the core leaves the whole store as it is.
OnlyProcessDocumentWritesStore ==
    [][IF reply'.op = "process_document"
       THEN documents' =
               [documents EXCEPT ![reply'.uri] = Some(reply'.out.text)]
       ELSE documents' = documents]_vars

\* process_document has stored a text under the URI that had none.
ProcessDocumentWritesWitness ==
    /\ reply.op = "process_document"
    /\ reply.uri = "file:///b.tx3"
    /\ documents[reply.uri] = Some(reply.out.text)
    /\ documents["file:///a.tx3"] # documents[reply.uri]

\* The Program the classifier was asked about, and the transactions of it
\* whose span contains the offset of the request.
ClassifiedProgram == parse_string(documents[reply.uri].v).v

ContainingTxs ==
    {tx \in Elements(ClassifiedProgram.txs) :
        reply.offset >= tx.span.start /\ reply.offset < tx.span.end}

\* The categories whose names include the identifier of the request.
Matches ==
    LET name == reply.identifier.value
        declares(defs) == \E d \in Elements(defs) : d.name.value = name
    IN  {c \in Classifications :
           \/ c = "Party" /\ declares(ClassifiedProgram.parties)
           \/ c = "Policy" /\ declares(ClassifiedProgram.policies)
           \/ c = "Type" /\ declares(ClassifiedProgram.types)
           \/ c = "Asset" /\ declares(ClassifiedProgram.assets)
           \/ c = "Transaction" /\ declares(ClassifiedProgram.txs)
           \/ c = "Parameter" /\ \E tx \in ContainingTxs :
                                    declares(tx.parameters.parameters)
           \/ c = "Input" /\ \E tx \in ContainingTxs :
                  \E d \in Elements(tx.inputs) : d.name = name
           \/ c = "Output" /\ \E tx \in ContainingTxs :
                  \E d \in Elements(tx.outputs) : d.name = Some(name)
           \/ c = "Reference" /\ \E tx \in ContainingTxs :
                  \E d \in Elements(tx.references) : d.name = name}

Precedence ==
    <<"Party", "Policy", "Type", "Asset", "Transaction", "Parameter", "Input",
      "Output", "Reference">>

\* C19: classify returns one classification for every program, identifier
\* and offset: the first category, in the order parties, policies, types,
\* assets, transactions, then parameters, inputs, outputs, references of
\* the transaction that contains the offset, whose names include the
\* identifier, and Variable when none does.
ClassifyReturnsFirstMatch ==
    reply.op = "classify" =>
       /\ reply.out \in Classifications
       /\ Matches = {} => reply.out = "Variable"
       /\ Matches # {} =>
             \E i \in DOMAIN Precedence :
                /\ reply.out = Precedence[i]
                /\ Precedence[i] \in Matches
                /\ \A j \in 1..(i - 1) : Precedence[j] \notin Matches

\* The identifier is declared as a party and as a policy, and classify
\* answered Party.
ClassifyReturnsFirstMatchWitness ==
    /\ reply.op = "classify"
    /\ {"Party", "Policy"} \subseteq Matches
    /\ reply.out = "Party"

\* The identifier of the request is the one the locator resolves at the
\* offset, and it is not the name of a party declaration but stands in an
\* expression.
InExpression ==
    /\ find_symbol_in_program(ClassifiedProgram, reply.offset) =
          SymIdentifier(reply.identifier)
    /\ \A d \in Elements(ClassifiedProgram.parties) :
          d.name # reply.identifier

\* C20 as stated: a name declared as a party is classified Party where it
\* is declared and Variable where it occurs as an expression identifier.
PartyNameInExpressionIsVariable ==
    (/\ reply.op = "classify"
     /\ "Party" \in Matches
     /\ find_symbol_in_program(ClassifiedProgram, reply.offset) =
           SymIdentifier(reply.identifier))
    => reply.out = IF InExpression THEN "Variable" ELSE "Party"

\* C20, amended: a name declared as a party is classified Party where it
\* is declared and also where it occurs as an expression identifier.
PartyNameInExpressionIsParty ==
    (/\ reply.op = "classify"
     /\ "Party" \in Matches
     /\ find_symbol_in_program(ClassifiedProgram, reply.offset) =
           SymIdentifier(reply.identifier))
    => reply.out = "Party"

\* classify has answered Party for an expression identifier that has the
\* name of a party.
PartyNameInExpressionWitness ==
    /\ reply.op = "classify"
    /\ "Party" \in Matches
    /\ InExpression
    /\ reply.out = "Party"

\* The places of the Program of SpecVisit whose identifier contains the
\* offset of the request.
PlaceSpan(place) ==
    CASE place = "T.name" -> tree.txs[1].name.span
      [] place = "T.p1.name" -> tree.txs[1].parameters.parameters[1].name.span
      [] place = "T.p1.type" -> tree.txs[1].parameters.parameters[1].type.span
      [] place = "T.p2.name" -> tree.txs[1].parameters.parameters[2].name.span
      [] place = "T.p2.type" -> tree.txs[1].parameters.parameters[2].type.span
      [] place = "T.input" -> tree.txs[1].inputs[1].fields[1].e.id.span
      [] place = "T.output" -> tree.txs[1].outputs[1].fields[1].e.id.span
      [] place = "T.mint" -> tree.txs[1].mints[1].fields[1].e.id.span
      [] place = "T.reference" -> tree.txs[1].references[1].ref.id.span
      [] place = "T.adhoc" -> tree.txs[1].adhoc[1].e.id.span
      [] place = "T.collateral" ->
            tree.txs[1].collateral[1].fields[1].e.id.span
      [] place = "T.signers" -> tree.txs[1].signers.v.signers[1].id.span
      [] place = "T.validity" -> tree.txs[1].validity.v.fields[1].e.id.span
      [] place = "T.burn" -> tree.txs[1].burn.v.fields[1].e.id.span
      [] place = "T.metadata" -> tree.txs[1].metadata.v.e.id.span
      [] place = "U.name" -> tree.txs[2].name.span
      [] place = "asset1" -> tree.assets[1].policy.id.span
      [] place = "asset2" -> tree.assets[2].policy.id.span
      [] place = "type1" -> tree.types[1].name.span
      [] place = "type2" -> tree.types[2].name.span
      [] place = "party1" -> tree.parties[1].span
      [] place = "party2" -> tree.parties[2].span
      [] place = "policy1" -> tree.policies[1].span
      [] place = "policy2" -> tree.policies[2].span

Containing ==
    {place \in Places :
        PlaceSpan(place).start <= reply.offset
        /\ reply.offset < PlaceSpan(place).end}

\* The declarations of the Program of SpecVisit in the order transactions,
\* assets, types, parties, policies, each with the places the visitor
\* finds a match in.
DeclarationOrder ==
    << Elements(TxPlaces) \ {"T.adhoc", "T.metadata"}, {"U.name"},
       {"asset1"}, {"asset2"}, {"type1"}, {"type2"}, {"party1"}, {"party2"},
       {"policy1"}, {"policy2"} >>

\* C21: find_symbol_in_program returns a match of the first declaration,
\* in the order transactions, assets, types, parties, policies and within
\* a kind in the order of the declarations, that has a match for the
\* offset, and none when no declaration has one.
FirstDeclarationWins ==
    reply.op = "find_symbol_in_program" =>
       IF \A i \in DOMAIN DeclarationOrder :
             DeclarationOrder[i] \cap Containing = {}
       THEN reply.out = None
       ELSE \E i \in DOMAIN DeclarationOrder :
               /\ reply.out.some
               /\ reply.out.v.id.value \in DeclarationOrder[i] \cap Containing
               /\ \A j \in 1..(i - 1) :
                     DeclarationOrder[j] \cap Containing = {}

\* Declarations of two kinds match the offset, and so do two declarations
\* of one kind.
FirstDeclarationWinsWitness ==
    /\ reply.op = "find_symbol_in_program"
    /\ reply.out = SymIdentifier(tree.parties[1].name)
    /\ {"party1", "party2", "policy1"} \subseteq Containing

\* C22: in one transaction the visitor returns the first match in the
\* order name, parameters (name, then type, of each), inputs, outputs,
\* mints, references, collateral, signers, validity, burn; the ad-hoc
\* blocks and the metadata block give no match for any offset.
FirstPlaceOfTxWins ==
    reply.op = "find_symbol_in_program" =>
       /\ reply.out.some =>
             reply.out.v.id.value \notin {"T.adhoc", "T.metadata"}
       /\ \A i \in DOMAIN TxPlaces :
             (/\ TxPlaces[i] \in Containing \ {"T.adhoc", "T.metadata"}
              /\ \A j \in 1..(i - 1) :
                    TxPlaces[j] \notin Containing \ {"T.adhoc", "T.metadata"})
             => /\ reply.out.some
                /\ reply.out.v.id.value = TxPlaces[i]

\* An ad-hoc block or the metadata block holds an identifier at the offset
\* before a later block does, and the later block gave the match.
FirstPlaceOfTxWinsWitness ==
    /\ reply.op = "find_symbol_in_program"
    /\ Containing \cap {"T.adhoc", "T.metadata"} # {}
    /\ reply.out.some
    /\ reply.out.v.id.value \in {"T.collateral", "T.signers", "T.validity",
                                 "T.burn"}

\* The identifier of an expression that is one, if any.
ExprIds(exprs) == {e.id : e \in {x \in exprs : x.kind = "Identifier"}}

\* The identifier nodes of a Program of the model: the names of the
\* declarations and of the parameters, and the identifiers of the fields
\* and expressions of the blocks.
IdentifierNodes(ast) ==
    {d.name : d \in Elements(ast.parties) \cup Elements(ast.policies)
                    \cup Elements(ast.types) \cup Elements(ast.assets)
                    \cup Elements(ast.txs)}
    \cup UNION {{p.name : p \in Elements(tx.parameters.parameters)} :
                  tx \in Elements(ast.txs)}
    \cup ExprIds({a.policy : a \in Elements(ast.assets)})
    \cup ExprIds(UNION {{f.e : f \in Elements(p.value.fields)} :
             p \in {q \in Elements(ast.policies) :
                       q.value.kind = "Constructor"}})
    \cup ExprIds(UNION {UNION {{f.e : f \in Elements(b.fields)} :
                           b \in Elements(tx.inputs) \cup Elements(tx.outputs)}
                        \cup {r.ref : r \in Elements(tx.references)} :
                  tx \in Elements(ast.txs)})

\* C23: whenever the offset lies inside the span of an identifier node of
\* the Program, find_symbol_in_program returns that identifier.
EveryIdentifierIsResolved ==
    (reply.op = "goto_definition" /\ "symbol" \in DOMAIN reply.out) =>
       \A n \in IdentifierNodes(StoredAst) :
          in_span(n.span, reply.out.offset) =>
             reply.out.symbol = SymIdentifier(n)

\* The label of the hover of the smallest construct of the transaction
\* that contains the offset: an input, an output, the parameter list when
\* it counts, the transaction itself otherwise.
SmallestConstruct(tx, offset, listCounts) ==
    IF \E d \in Elements(tx.inputs) : span_contains(d.span, offset)
    THEN Lit("**Input**: ")
    ELSE IF \E d \in Elements(tx.outputs) : span_contains(d.span, offset)
    THEN Lit("**Output**: ")
    ELSE IF span_contains(tx.parameters.span, offset) /\ listCounts
    THEN Lit("**Parameter**: ")
    ELSE Lit("**Transaction**: ")

\* C24 as stated: in a transaction that contains the offset, hover answers
\* for the input or the output that contains it, else for the parameter
\* list when that contains it, and for the transaction only otherwise.
HoverIsOfSmallestConstruct ==
    (reply.op = "hover" /\ "offset" \in DOMAIN reply.out) =>
       \A tx \in Elements(StoredAst.txs) :
          span_contains(tx.span, reply.out.offset) =>
             /\ reply.out.result.v.some
             /\ reply.out.result.v.v.contents[1] =
                   SmallestConstruct(tx, reply.out.offset, TRUE)

\* C24, amended: the same, but a parameter list without parameters does
\* not count: an offset in it is answered with the Transaction hover.
HoverIsOfSmallestNonEmptyConstruct ==
    (reply.op = "hover" /\ "offset" \in DOMAIN reply.out) =>
       \A tx \in Elements(StoredAst.txs) :
          span_contains(tx.span, reply.out.offset) =>
             /\ reply.out.result.v.some
             /\ reply.out.result.v.v.contents[1] =
                   SmallestConstruct(tx, reply.out.offset,
                                     tx.parameters.parameters # <<>>)

\* hover was answered with the Transaction hover for an offset in a
\* parameter list without parameters.
HoverInEmptyParameterListWitness ==
    /\ reply.op = "hover"
    /\ "offset" \in DOMAIN reply.out
    /\ reply.out.result.v.some
    /\ reply.out.result.v.v.contents[1] = Lit("**Transaction**: ")
    /\ \E tx \in Elements(StoredAst.txs) :
          /\ span_contains(tx.parameters.span, reply.out.offset)
          /\ tx.parameters.parameters = <<>>

\* The candidates of a token_infos list that the encoding loop keeps: those
\* whose end character is after their start character.
KeptInfos(infos) ==
    SelectSeq(infos,
              LAMBDA t : t.range.end.character > t.range.start.character)

\* The token the encoding emits for the k-th kept candidate: its deltas are
\* taken against the kept candidate before it, or against (0, 0).
TokenAfterKept(kept, k) ==
    LET line == kept[k].range.start.line
        start == kept[k].range.start.character
        prev_line == IF k = 1 THEN 0 ELSE kept[k - 1].range.start.line
        prev_start == IF k = 1 THEN 0
                      ELSE kept[k - 1].range.start.character
    IN  [delta_line |-> line - prev_line,
         delta_start |-> IF line = prev_line THEN start - prev_start
                         ELSE start,
         length |-> kept[k].range.end.character - start,
         token_type |-> kept[k].token_type,
         token_modifiers_bitset |-> kept[k].token_modifiers]

\* C25: every token collect_semantic_tokens emits has a length greater than
\* 0, and a candidate with an empty range is dropped without moving the
\* position the deltas of the next token are taken against: the tokens
\* emitted are those of the candidates with a positive length, each with
\* deltas against the candidate of positive length before it.
EmptyTokensAreDropped ==
    (reply # NoReply /\ reply.op = "collect_semantic_tokens") =>
        LET kept == KeptInfos(reply.infos)
        IN  /\ \A k \in DOMAIN reply.out : reply.out[k].length > 0
            /\ \A k \in DOMAIN reply.infos :
                  reply.infos[k].range.start = reply.infos[k].range.end
                      => \A j \in DOMAIN kept : kept[j] # reply.infos[k]
            /\ Len(reply.out) = Len(kept)
            /\ \A k \in DOMAIN kept :
                  reply.out[k] = TokenAfterKept(kept, k)

\* An empty candidate at (0, 1) between two kept candidates of line 0: the
\* second token is emitted with its delta against the first.
EmptyTokensAreDroppedWitness ==
    /\ reply # NoReply
    /\ reply.op = "collect_semantic_tokens"
    /\ Len(reply.infos) = 3
    /\ reply.infos[2].range.start = reply.infos[2].range.end
    /\ reply.infos[2].range.start = [line |-> 0, character |-> 1]
    /\ Len(reply.out) = 2
    /\ reply.out[2].delta_line = 0
    /\ reply.out[2].delta_start = 1

\* C26: every token_type that collect_semantic_tokens emits is an index
\* into the token_types of the legend and denotes the kind of the
\* declaration there (a party "party", a policy "policy", a type "type", an
\* asset "class"), and every bit of the modifiers is a modifier of the
\* legend.
TokensReferToLegend ==
    (reply.op = "semantic_tokens_full" /\ "infos" \in DOMAIN reply.out) =>
        LET rope == StoredText
            ast == StoredAst
            infos == reply.out.infos
            tokens == reply.out.result.v.v
            Denote(decls, entry) ==
                \A i \in DOMAIN decls : \A k \in DOMAIN infos :
                    infos[k].range
                        = span_to_lsp_range(rope, decls[i].name.span)
                    => LegendEntry(infos[k].token_type) = Some(entry)
        IN  /\ \A k \in DOMAIN tokens :
                  /\ LegendEntry(tokens[k].token_type).some
                  /\ "unknown" \notin
                        ModifiersOf(tokens[k].token_modifiers_bitset, 0)
            /\ Denote(ast.parties, "party")
            /\ Denote(ast.policies, "policy")
            /\ Denote(ast.types, "type")
            /\ Denote(ast.assets, "class")

\* C27: once every did_open and did_change handler of a URI has finished,
\* the diagnostics the client received last for the URI are the ones
\* process_document computed from the text the store holds for it.
LastPublishedIsOfStoredText ==
    \A u \in Uris :
        (inflight = {} /\ published[u].some) =>
            /\ documents[u].some
            /\ published[u].v.text = documents[u].v
            /\ published[u].v.diagnostics
                 = process_document(documents[u].v, published[u].v.analysis)

\* The text the store is to hold after the notification: that of did_open,
\* that of the first content change of did_change or the empty text when
\* it has none, and no entry after did_close.
TextAfter(sent) ==
    IF ~sent.some THEN NoDocument
    ELSE IF sent.v = <<>> THEN Some(<<>>)
    ELSE Some(Head(sent.v))

ParameterSpan(param) == Span(param.name.span.start, param.type.span.end)

\* C29: for an offset in the parameter list of a transaction, hover names
\* the parameter whose own span contains the offset, and answers with the
\* Transaction hover when the list has no parameter.
ParameterHoverNamesContainingParameter ==
    (reply.op = "hover" /\ "offset" \in DOMAIN reply.out) =>
       \A tx \in Elements(StoredAst.txs) :
          span_contains(tx.parameters.span, reply.out.offset) =>
             LET params == tx.parameters.parameters
                 contents == reply.out.result.v.v.contents
             IN  /\ reply.out.result.v.some
                 /\ params = <<>> =>
                       contents[1] = Lit("**Transaction**: ")
                 /\ \A i \in DOMAIN params :
                       span_contains(ParameterSpan(params[i]),
                                     reply.out.offset)
                       => /\ contents[1] = Lit("**Parameter**: ")
                          /\ contents[3] = Name(params[i].name.value)

\* The number of string arguments the command reads.
ArgumentsRead(command) == IF command = "generate-tir" THEN 2 ELSE 1

\* The error kinds of execute_command that the arguments and the store
\* decide: the reply is the error of that kind with that code.
IsError(out, kind, code) ==
    /\ "ok" \in DOMAIN out
    /\ ~out.ok
    /\ out.e.message.error = kind
    /\ out.e.code = code

ErrorKindsAreAsDocumented ==
    reply.op = "execute_command" =>
        LET out == reply.out.result
            known == reply.command \in
                        {"generate-tir", "generate-ast", "generate-diagram"}
            read == 1..ArgumentsRead(reply.command)
            strings == \A i \in read :
                          /\ i \in DOMAIN reply.arguments
                          /\ as_str(reply.arguments[i]).some
        IN  /\ ~known => IsError(out, "InvalidCommand", "InvalidRequest")
            /\ (known /\ ~strings)
                  => IsError(out, "InvalidCommandArgs", "InvalidParams")
            /\ (known /\ strings /\ reply.arguments[1].str \in Uris
                  /\ ~documents[reply.arguments[1].str].some)
                  => IsError(out, "DocumentNotFound", "InvalidParams")

\* C30: for every command name, argument list and store, execute_command
\* finishes with a value or an error value and never panics, also when the
\* stored document has analysis errors; an unrecognised name gives
\* InvalidCommand with code InvalidRequest, a missing or non-string
\* argument InvalidCommandArgs with code InvalidParams, a URI absent from
\* the store DocumentNotFound with code InvalidParams.
ExecuteCommandNeverPanics ==
    /\ ErrorKindsAreAsDocumented
    /\ reply.op = "execute_command" =>
          /\ reply.out.result # Panic
          /\ "ok" \in DOMAIN reply.out.result

====
